---- MODULE Spec2Model ----
(***************************************************************************)
(* Model of the tpDcc client/server protocol (src/tpDcc/core/client.py,    *)
(* src/tpDcc/core/server.py): the 10-byte length header framing, the       *)
(* client's polling receive with its discard counter, the server's         *)
(* incremental read and the command dispatch.                              *)
(*                                                                         *)
(* A byte of the wire is a pair <<kind, value>>:                           *)
(*   <<"d", n>>   an ASCII digit with value n                              *)
(*   <<"sp", 0>>  an ASCII space                                           *)
(*   <<"{", 0>>, <<"}", 0>>  the braces of a JSON object                   *)
(*   <<key, value>>          one key/value pair of a JSON object           *)
(* so a JSON document is modelled at the token level (one byte per brace   *)
(* and per key/value pair) while headers are modelled digit by digit.      *)
(***************************************************************************)
EXTENDS Integers, Sequences, FiniteSets, TLC

\* ------------------------------------------------------------------ bounds
\* How many requests are written to a server's connection.
MaxRequests == 2

\* How many times send is called on the client's connection. Three calls are
\* needed for a receive that timed out inside a frame to be followed by a
\* receive that starts at the first byte of a later frame.
MaxCalls == 3

\* How many times the bytes in flight to the server reach it only in part.
MaxSplits == 3

\* --------------------------------------------------------------- constants
HEADER_SIZE == 10

VARIABLES
    requests,         \* requests the client has written with sendall, in order
    replied,          \* number of requests the server has answered
    stream,           \* every byte the server has written to the connection
    arrived,          \* how many bytes of stream reached the client's socket
    consumed,         \* how many bytes of stream the client's recv calls took
    pc,               \* position of the client: "idle", "loop", "drain"
    discard_count,    \* BaseClient._discard_count
    total_data,       \* recv local: bytes accumulated for the current part
    reply_length,     \* recv local
    bytes_remaining,  \* recv local
    outcome,          \* how the last send ended
    res,              \* the reply dict the last send returned
    status,           \* BaseClient._status
    timeouts,         \* history: recv calls that raised the timeout error
    discards,         \* history: complete replies dropped by recv
    recv_start,       \* history: value of consumed when the latest recv call began
    recv_discard,     \* history: discard_count when the latest recv call began
    timed_out,        \* history: the latest recv call left its polling loop by timeout
    peer_closed,      \* the server's end of the connection is closed
    \* --- the server's side of a connection (BaseServer._read)
    sent,             \* requests a client wrote to the connection, in order
    wire,             \* bytes of those requests still in flight to the server
    sock,             \* bytes waiting in the server's socket (bytesAvailable)
    retrieved_data,   \* BaseServer._retrieved_data
    srv_remaining,    \* BaseServer._bytes_remaining
    dispatched,       \* history: the dicts _read passed to _process_data
    written,          \* history: the reply dicts handed to _write
    read_error,       \* history: the exception that left the latest _read
    events,           \* history: dispatches and writes of the server, in order
    splits,           \* history: deliveries that brought only part of the bytes
    \* --- DccServer dispatch (_process_data) and the two paths of send
    do_update_paths,  \* DccServer._do_update_paths
    modules,          \* len(DccServer._modules_to_import)
    dcc_attrs,        \* the names the command executor (self._dcc) exposes
    d_req,            \* the request dict of the latest _process_data call
    d_reply,          \* the reply dict it handed to _write
    d_raised,         \* an exception left the latest _process_data call
    d_route,          \* history: where the latest request was routed
    d_handler_calls,  \* history: registered handlers invoked for it
    d_exec_runs,      \* history: times the body of an executor operation ran
    d_target_raised,  \* history: the target of the request raised while running
    c_status,         \* _status of a client before it sent the latest request
    ret_inproc,       \* what send returned through the in-process path
    st_inproc,        \* the client's _status after that send
    ret_net,          \* what send returned through the socket path
    st_net,           \* the client's _status after that send
    d_op,             \* history: the executor operation the request reached
    \* --- one client object: connect, send while offline, dynamic calls
    k_class,          \* "BaseClient" or "DccClient"
    k_server,         \* BaseClient._server is set (in-process server)
    k_connected,      \* BaseClient._connected
    k_level,          \* level of BaseClient._status ("none" for dict())
    k_socket,         \* a socket connection to a server is established
    k_op,             \* history: the latest operation called on the client
    k_in,             \* history: the inputs of that operation
    k_ret,            \* history: what it returned
    k_raised,         \* history: the exception that left it
    k_wire,           \* history: the request dicts written to the socket
    k_executed,       \* history: commands run in the client's own process
    \* --- one server and the connections it accepted
    n_socket,         \* BaseServer._socket (0 for None)
    n_accepted,       \* connections accepted, their readyRead bound to _read
    n_in,             \* per connection: bytes waiting in its socket
    n_out,            \* per connection: the reply dicts written to it
    n_sent,           \* per connection: the requests its client wrote
    n_remaining,      \* BaseServer._bytes_remaining
    n_retrieved,      \* BaseServer._retrieved_data
    n_ready,          \* history: the connection whose readyRead ran _read last
    n_source,         \* history: the connection that _read read from
    \* --- port numbers
    p_base,           \* the base port (PORT of the client and server classes)
    p_assigned,       \* the ports computed so far, by role
    \* --- the callback channel of a DccServer
    cb_connected,     \* CallbackClient._connected
    t_pc,             \* per caller of send: where it stands in BaseClient.send
    t_req,            \* per caller: the record it sends (EmptyDict before the call)
    t_loc,            \* per caller: the local variables of its recv
    t_out,            \* per caller: how its send ended
    t_got,            \* history, per caller: the reply bytes its recv took
    cb_wire,          \* bytes written to the callback socket, not yet read by the peer
    cb_log,           \* history: what the CallbackServer dispatched, replied, emitted
    cb_rejects,       \* history: number of reads of the peer that found no request
    cb_stream,        \* every byte the CallbackServer has written to the connection
    cb_ends,          \* history: where each reply frame ends in cb_stream
    cb_consumed,      \* number of bytes of cb_stream read from the shared socket
    cb_discard,       \* CallbackClient._discard_count, shared by the callers
    cb_incs,          \* history: completed `_discard_count += 1` statements
    cb_decs,          \* history: completed `_discard_count -= 1` statements
    m_sent,           \* main channel: requests written to the DccServer
    m_answered,       \* main channel: requests read, dispatched and answered
    m_overlap         \* history: a main request was answered while a send waited

clientVars == <<requests, replied, stream, arrived, consumed, pc, discard_count,
                total_data, reply_length, bytes_remaining, outcome, res, status,
                timeouts, discards, recv_start, recv_discard, timed_out, peer_closed>>

readVars == <<sent, wire, sock, retrieved_data, srv_remaining, dispatched, written,
              read_error, events, splits>>

dispVars == <<do_update_paths, modules, dcc_attrs, d_req, d_reply, d_raised, d_route,
              d_handler_calls, d_exec_runs, d_target_raised, c_status, ret_inproc,
              st_inproc, ret_net, st_net, d_op>>

callVars == <<k_class, k_server, k_connected, k_level, k_socket, k_op, k_in, k_ret,
              k_raised, k_wire, k_executed>>

connVars == <<n_socket, n_accepted, n_in, n_out, n_sent, n_remaining, n_retrieved,
              n_ready, n_source>>

portVars == <<p_base, p_assigned>>

cbVars == <<cb_connected, t_pc, t_req, t_loc, t_out, t_got, cb_wire, cb_log, cb_rejects,
            cb_stream, cb_ends, cb_consumed, cb_discard, cb_incs, cb_decs, m_sent,
            m_answered, m_overlap>>

vars == <<clientVars, readVars, dispVars, callVars, connVars, portVars, cbVars>>

\* ------------------------------------------------------------------- bytes
Min(a, b) == IF a < b THEN a ELSE b

Digit(n) == <<"d", n>>
Space == <<"sp", 0>>
LBrace == <<"{", 0>>
RBrace == <<"}", 0>>

IsDigit(b) == b[1] = "d"
IsSpace(b) == b[1] = "sp"
IsPair(b) == b[1] \notin {"d", "sp", "{", "}"}

RECURSIVE Pow10(_)
Pow10(k) == IF k = 0 THEN 1 ELSE 10 * Pow10(k - 1)

RECURSIVE NumDigits(_)
NumDigits(n) == IF n < 10 THEN 1 ELSE 1 + NumDigits(n \div 10)

\* str(n).zfill(width): decimal digits, left-padded with '0'
ZFill(n, width) ==
    LET w == IF NumDigits(n) > width THEN NumDigits(n) ELSE width
    IN  [i \in 1..w |-> Digit((n \div Pow10(w - i)) % 10)]

\* '{0:10d}'.format(n): decimal digits, right-justified, left-padded with ' '
FormatD(n, width) ==
    LET k == NumDigits(n)
        w == IF k > width THEN k ELSE width
    IN  [i \in 1..w |-> IF i <= w - k THEN Space
                        ELSE Digit((n \div Pow10(w - i)) % 10)]

RECURSIVE LStrip(_)
LStrip(s) == IF s # <<>> /\ IsSpace(Head(s)) THEN LStrip(Tail(s)) ELSE s

RECURSIVE RStrip(_)
RStrip(s) ==
    IF s # <<>> /\ IsSpace(s[Len(s)]) THEN RStrip(SubSeq(s, 1, Len(s) - 1)) ELSE s

RECURSIVE DecimalValue(_)
DecimalValue(s) ==
    IF s = <<>> THEN 0 ELSE 10 * DecimalValue(SubSeq(s, 1, Len(s) - 1)) + s[Len(s)][2]

\* int(text): surrounding whitespace is ignored, the rest must be digits;
\* anything else raises ValueError
IntValid(s) ==
    LET t == RStrip(LStrip(s))
    IN  t # <<>> /\ \A i \in 1..Len(t) : IsDigit(t[i])

IntValue(s) == DecimalValue(RStrip(LStrip(s)))

\* -------------------------------------------------------------------- JSON
\* The keys of a dict in the order json.dumps writes them (insertion order of
\* the reply dicts the servers build).
KeyOrder == <<"success", "msg", "result", "cmd", "status", "exe", "name", "version", "pid",
              "args", "paths", "text", "title", "value", "callback_type">>

RECURSIVE DumpKeys(_, _)
DumpKeys(d, i) ==
    IF i > Len(KeyOrder) THEN <<>>
    ELSE (IF KeyOrder[i] \in DOMAIN d THEN <<<<KeyOrder[i], d[KeyOrder[i]]>>>> ELSE <<>>)
         \o DumpKeys(d, i + 1)

\* json.dumps(d)
JsonDumps(d) == <<LBrace>> \o DumpKeys(d, 1) \o <<RBrace>>

\* json.loads(text) succeeds
JsonValid(s) ==
    /\ Len(s) >= 2
    /\ s[1] = LBrace
    /\ s[Len(s)] = RBrace
    /\ \A i \in 2..(Len(s) - 1) : IsPair(s[i])
    /\ \A i, j \in 2..(Len(s) - 1) : s[i][1] = s[j][1] => i = j

\* json.loads(text)
JsonLoads(s) ==
    [k \in {s[i][1] : i \in 2..(Len(s) - 1)} |->
        (CHOOSE b \in {s[i] : i \in 2..(Len(s) - 1)} : b[1] = k)[2]]


\* ------------------------------------------------------------------- dicts
Put(d, k, v) == [x \in (DOMAIN d) \cup {k} |-> IF x = k THEN v ELSE d[x]]
Pop(d, k) == [x \in (DOMAIN d) \ {k} |-> d[x]]
EmptyDict == [x \in {} |-> ""]

None == "null"
True == "true"

\* Message texts are sequences of text fragments; '' is the empty sequence.
NoMsg == <<>>
Traceback == <<"Traceback (most recent call last)">>
UnknownError == <<"Unknown Error">>

\* ------------------------------------------------------ BaseServer dispatch
\* The reply dict _process_data starts from.
NewReply == [success |-> FALSE, msg |-> NoMsg, result |-> None]

\* 'Invalid command ({})'.format(name)
InvalidCommand(name) == <<"Invalid command (", name, ")">>

\* BaseServer._write: the framed reply, header zero-filled to HEADER_SIZE
Frame(reply) == ZFill(Len(JsonDumps(reply)), HEADER_SIZE) \o JsonDumps(reply)

\* Mutant of FinishReply: a failed reply is not given the command name.
FinishReplyNoCmd(cmd, out) ==
    IF out.raised
    THEN Put(Put(out.reply, "success", FALSE), "msg", Traceback)
    ELSE out.reply

\* The tail of _process_data after the command ran: an exception becomes
\* success=False with the trace, a failed reply gets the command name.
FinishReply(cmd, out) ==
    LET r1 == IF out.raised
              THEN Put(Put(out.reply, "success", FALSE), "msg", Traceback)
              ELSE out.reply
        r2 == IF ~r1["success"]
              THEN (LET r3 == Put(r1, "cmd", cmd)
                    IN  IF "msg" \notin DOMAIN r3 THEN Put(r3, "msg", UnknownError) ELSE r3)
              ELSE r1
    IN  r2

\* ----------------------------------------------------------- ExampleServer
\* Public methods of ExampleServer found by inspect.getmembers.
ExampleServerFunctions == {"close_connection", "echo", "set_title", "sleep"}

ExampleProcessCommand(data, reply) ==
    LET cmd == data["cmd"] IN
    IF cmd = "echo" THEN
        IF "text" \in DOMAIN data
        THEN [raised |-> FALSE,
              reply |-> Put(Put(reply, "result", data["text"]), "success", TRUE)]
        ELSE [raised |-> TRUE, reply |-> reply]
    ELSE IF cmd = "set_title" THEN
        IF "title" \in DOMAIN data
        THEN [raised |-> FALSE, reply |-> Put(Put(reply, "result", True), "success", TRUE)]
        ELSE [raised |-> TRUE, reply |-> reply]
    ELSE IF cmd = "sleep" THEN
        [raised |-> FALSE, reply |-> Put(Put(reply, "result", True), "success", TRUE)]
    ELSE IF cmd \in ExampleServerFunctions THEN
        \* close_connection(self) called with (data, reply): TypeError
        [raised |-> TRUE, reply |-> reply]
    ELSE
        [raised |-> FALSE, reply |-> Put(reply, "msg", InvalidCommand(cmd))]

ExampleProcessData(data) ==
    LET cmd == data["cmd"] IN
    IF cmd = "ping" THEN Put(NewReply, "success", TRUE)
    ELSE FinishReply(cmd, ExampleProcessCommand(data, NewReply))


\* ------------------------------------------------------- BaseClient, socket
\* Requests the client issues in the model: BaseClient.ping, and a command
\* with no local method (sent by the function __getattribute__ builds), which
\* the server does not know either.
ClientRequests ==
    { [cmd |-> "ping"],
      [cmd |-> "unknown_op", args |-> <<>>] }

Avail == arrived - consumed

\* Mutant of SockRecv: the size argument is ignored and everything that
\* waits in the socket is returned.
SockRecvAll(n) == SubSeq(stream, consumed + 1, arrived)

\* socket.recv(n) with data waiting: the next min(n, waiting) bytes
SockRecv(n) == SubSeq(stream, consumed + 1, consumed + Min(n, Avail))

\* How a call of send ends: the local variables of recv are dropped.
EndSend(how, reply, st) ==
    /\ pc' = "idle"
    /\ outcome' = how
    /\ res' = reply
    /\ status' = st
    /\ total_data' = <<>>
    /\ reply_length' = 0
    /\ bytes_remaining' = 0

\* res.pop('status', dict()): the value popped, and what is left of res
StatusOf(reply) == IF "status" \in DOMAIN reply THEN reply["status"] ELSE EmptyDict
WithoutStatus(reply) == IF "status" \in DOMAIN reply THEN Pop(reply, "status") ELSE reply

\* recv returned `reply` to send: self._status = res.pop('status', dict())
ReturnReply(reply) == EndSend("reply", WithoutStatus(reply), StatusOf(reply))

\* An exception leaves recv and send: nothing is returned, _status is kept.
Raise(exc) == EndSend(exc, EmptyDict, status)

\* The first lines of recv, called with `pos` bytes consumed so far and the
\* discard counter at `dc`.
EnterRecv(pos, dc) ==
    /\ total_data' = <<>>
    /\ reply_length' = 0
    /\ bytes_remaining' = HEADER_SIZE
    /\ recv_start' = pos
    /\ recv_discard' = dc
    /\ timed_out' = FALSE

\* BaseClient.send on a connected socket with no in-process server: sendall
\* of the framed request, then recv.
Send ==
    /\ pc = "idle"
    /\ Len(requests) < MaxCalls
    /\ \E r \in ClientRequests : requests' = Append(requests, r)
    /\ pc' = "loop"
    /\ EnterRecv(consumed, discard_count)
    /\ UNCHANGED <<replied, stream, arrived, consumed, discard_count, outcome, res,
                   status, timeouts, discards, peer_closed>>
    /\ UNCHANGED <<readVars, dispVars, callVars, connVars, portVars, cbVars>>

\* One pass of the polling loop of recv in which socket.recv returned data.
RecvLoop ==
    /\ pc = "loop"
    /\ Avail > 0
    /\ bytes_remaining > 0
    /\ LET data == SockRecv(bytes_remaining)
           total == total_data \o data
           left == bytes_remaining - Len(data)
       IN  /\ consumed' = consumed + Len(data)
           /\ IF left > 0 THEN
                  /\ total_data' = total
                  /\ bytes_remaining' = left
                  /\ UNCHANGED <<pc, reply_length, discard_count, outcome, res, status,
                                 discards, recv_start, recv_discard, timed_out>>
              ELSE IF reply_length = 0 THEN
                  \* header complete: reply_length = int(header)
                  IF IntValid(total) THEN
                      /\ reply_length' = IntValue(total)
                      /\ bytes_remaining' = IntValue(total)
                      /\ total_data' = <<>>
                      /\ UNCHANGED <<pc, discard_count, outcome, res, status, discards,
                                     recv_start, recv_discard, timed_out>>
                  ELSE
                      /\ Raise("ValueError")
                      /\ UNCHANGED <<discard_count, discards, recv_start, recv_discard,
                                     timed_out>>
              ELSE IF discard_count > 0 THEN
                  \* a stale reply: dropped, and recv starts again
                  /\ discard_count' = discard_count - 1
                  /\ discards' = discards + 1
                  /\ EnterRecv(consumed + Len(data), discard_count - 1)
                  /\ UNCHANGED <<pc, outcome, res, status>>
              ELSE IF JsonValid(total) THEN
                  /\ ReturnReply(JsonLoads(total))
                  /\ UNCHANGED <<discard_count, discards, recv_start, recv_discard,
                                 timed_out>>
              ELSE
                  /\ Raise("ValueError")
                  /\ UNCHANGED <<discard_count, discards, recv_start, recv_discard,
                                 timed_out>>
    /\ UNCHANGED <<requests, replied, stream, arrived, timeouts, peer_closed>>
    /\ UNCHANGED <<readVars, dispVars, callVars, connVars, portVars, cbVars>>

\* The socket is a blocking one (setblocking is commented out in _connect):
\* socket.recv returns at once only when bytes wait in the socket or when the
\* peer has closed the connection and every byte it wrote has been read.
AtEOF == peer_closed /\ consumed = Len(stream)

\* Mutant of RecvTimeout: the loop is left without counting the timeout.
RecvTimeoutUncounted ==
    /\ pc = "loop"
    /\ consumed > recv_start \/ AtEOF
    /\ pc' = "drain"
    /\ timed_out' = TRUE
    /\ UNCHANGED <<requests, replied, stream, arrived, consumed, total_data,
                   reply_length, bytes_remaining, outcome, res, status, timeouts,
                   discards, recv_start, recv_discard, peer_closed, discard_count>>
    /\ UNCHANGED <<readVars, dispVars, callVars, connVars, portVars, cbVars>>

\* The loop condition fails: time.time() - start_time >= self._timeout. It is
\* evaluated again only after a socket.recv call of this invocation returned.
RecvTimeout ==
    /\ pc = "loop"
    /\ consumed > recv_start \/ AtEOF
    /\ discard_count' = discard_count + 1
    /\ pc' = "drain"
    /\ timed_out' = TRUE
    /\ UNCHANGED <<requests, replied, stream, arrived, consumed, total_data,
                   reply_length, bytes_remaining, outcome, res, status, timeouts,
                   discards, recv_start, recv_discard, peer_closed>>
    /\ UNCHANGED <<readVars, dispVars, callVars, connVars, portVars, cbVars>>

\* The one read attempt after the timeout, then the timeout error unless the
\* attempt completed a reply body.
RecvDrain ==
    /\ pc = "drain"
    /\ Avail > 0 \/ AtEOF
    /\ LET data == IF Avail > 0 /\ bytes_remaining > 0
                   THEN SockRecv(bytes_remaining) ELSE <<>>
           total == total_data \o data
           left == bytes_remaining - Len(data)
       IN  /\ consumed' = consumed + Len(data)
           /\ IF data = <<>> \/ left > 0 THEN
                  /\ Raise("RuntimeError")
                  /\ timeouts' = timeouts + 1
                  /\ UNCHANGED discard_count
              ELSE IF reply_length = 0 THEN
                  IF IntValid(total) THEN
                      /\ Raise("RuntimeError")
                      /\ timeouts' = timeouts + 1
                      /\ UNCHANGED discard_count
                  ELSE
                      /\ Raise("ValueError")
                      /\ UNCHANGED <<discard_count, timeouts>>
              ELSE
                  /\ discard_count' = discard_count - 1
                  /\ IF JsonValid(total)
                     THEN ReturnReply(JsonLoads(total))
                     ELSE Raise("ValueError")
                  /\ UNCHANGED timeouts
    /\ UNCHANGED <<requests, replied, stream, arrived, discards, recv_start,
                   recv_discard, timed_out, peer_closed>>
    /\ UNCHANGED <<readVars, dispVars, callVars, connVars, portVars, cbVars>>

\* recv is waiting and could take more bytes than wait in the socket. The
\* client sees the server and the network only through the bytes that
\* socket.recv returns, so what they do while the client could not tell is
\* put off until then: the runs left out differ only in steps the client
\* cannot observe.
Starved == pc # "idle" /\ Avail < bytes_remaining

\* Bytes the server wrote reach the client's socket: one more byte, or all
\* that is in flight. Any number of steps may pass between two reads of the
\* client, so the chunks it sees have any size.
Arrive ==
    /\ arrived < Len(stream)
    /\ Starved
    /\ \E n \in {arrived + 1, Len(stream)} : arrived' = n
    /\ UNCHANGED <<requests, replied, stream, consumed, pc, discard_count, total_data,
                   reply_length, bytes_remaining, outcome, res, status, timeouts,
                   discards, recv_start, recv_discard, timed_out, peer_closed>>
    /\ UNCHANGED <<readVars, dispVars, callVars, connVars, portVars, cbVars>>

\* The server reads the next request, dispatches it and writes the reply.
ServerReply ==
    /\ ~peer_closed
    /\ arrived = Len(stream)
    /\ Starved
    /\ replied < Len(requests)
    /\ replied' = replied + 1
    /\ stream' = stream \o Frame(ExampleProcessData(requests[replied + 1]))
    /\ UNCHANGED <<requests, arrived, consumed, pc, discard_count, total_data,
                   reply_length, bytes_remaining, outcome, res, status, timeouts,
                   discards, recv_start, recv_discard, timed_out, peer_closed>>
    /\ UNCHANGED <<readVars, dispVars, callVars, connVars, portVars, cbVars>>

\* The server closes its end of the connection (BaseServer.close_connection,
\* or the host application ends): nothing more is written to it.
PeerClose ==
    /\ ~peer_closed
    /\ consumed = Len(stream)
    /\ Starved
    /\ peer_closed' = TRUE
    /\ UNCHANGED <<requests, replied, stream, arrived, consumed, pc, discard_count,
                   total_data, reply_length, bytes_remaining, outcome, res, status,
                   timeouts, discards, recv_start, recv_discard, timed_out>>
    /\ UNCHANGED <<readVars, dispVars, callVars, connVars, portVars, cbVars>>

\* The server's side of the connection before any byte was written to it.
ReadInit ==
    /\ sent = <<>>
    /\ wire = <<>>
    /\ sock = <<>>
    /\ retrieved_data = <<>>
    /\ srv_remaining = -1
    /\ dispatched = <<>>
    /\ written = <<>>
    /\ read_error = "none"
    /\ events = <<>>
    /\ splits = 0

ClientInit ==
    /\ requests = <<>>
    /\ replied = 0
    /\ stream = <<>>
    /\ arrived = 0
    /\ consumed = 0
    /\ pc = "idle"
    /\ discard_count = 0
    /\ total_data = <<>>
    /\ reply_length = 0
    /\ bytes_remaining = 0
    /\ outcome = "none"
    /\ res = EmptyDict
    /\ status = EmptyDict
    /\ timeouts = 0
    /\ discards = 0
    /\ recv_start = 0
    /\ recv_discard = 0
    /\ timed_out = FALSE
    /\ peer_closed = FALSE

\* A DccServer built with the given update_paths argument that has served no
\* request yet, and the names its executor exposes.
DispStart(doUpdate, attrs) ==
    /\ do_update_paths = doUpdate
    /\ modules = 0
    /\ dcc_attrs = attrs
    /\ d_req = EmptyDict
    /\ d_reply = EmptyDict
    /\ d_raised = FALSE
    /\ d_route = "none"
    /\ d_handler_calls = 0
    /\ d_exec_runs = 0
    /\ d_target_raised = FALSE
    /\ c_status = EmptyDict
    /\ ret_inproc = EmptyDict
    /\ st_inproc = EmptyDict
    /\ ret_net = EmptyDict
    /\ st_net = EmptyDict
    /\ d_op = EmptyDict

\* A client object after BaseClient.__init__.
CallStart(cls, server) ==
    /\ k_class = cls
    /\ k_server = server
    /\ k_connected = FALSE
    /\ k_level = "none"
    /\ k_socket = FALSE
    /\ k_op = "none"
    /\ k_in = EmptyDict
    /\ k_ret = "none"
    /\ k_raised = "none"
    /\ k_wire = <<>>
    /\ k_executed = 0

Connections == {1, 2}

\* A server after BaseServer.__init__: listening, no connection accepted.
ConnInit ==
    /\ n_socket = 0
    /\ n_accepted = {}
    /\ n_in = [c \in Connections |-> <<>>]
    /\ n_out = [c \in Connections |-> <<>>]
    /\ n_sent = [c \in Connections |-> <<>>]
    /\ n_remaining = -1
    /\ n_retrieved = <<>>
    /\ n_ready = 0
    /\ n_source = 0

\* BaseClient.PORT / BaseServer.PORT
PORT == 17344

PortStart(base) ==
    /\ p_base = base
    /\ p_assigned = EmptyDict

\* ------------------------------------------------- callback channel, start
\* Callers of send on the one CallbackClient of a DccServer: the threads
\* DccServer.send_callback starts and callers of CallbackClient.send_callback.
Threads == {1, 2}

\* The local variables of recv at its first line; tmp is the value of
\* _discard_count a `+= 1` or `-= 1` statement has loaded and not yet stored,
\* polled says that a socket.recv call of this invocation has returned.
Loc0 == [total |-> <<>>, len |-> 0, rem |-> HEADER_SIZE, tmp |-> 0, polled |-> FALSE]

\* A DccServer after _init, its CallbackClient connected or not, and no
\* callback sent yet.
CbStart(connected) ==
    /\ cb_connected = connected
    /\ t_pc = [t \in Threads |-> "none"]
    /\ t_req = [t \in Threads |-> EmptyDict]
    /\ t_loc = [t \in Threads |-> Loc0]
    /\ t_out = [t \in Threads |-> "none"]
    /\ t_got = [t \in Threads |-> {}]
    /\ cb_wire = <<>>
    /\ cb_log = <<>>
    /\ cb_rejects = 0
    /\ cb_stream = <<>>
    /\ cb_ends = <<>>
    /\ cb_consumed = 0
    /\ cb_discard = 0
    /\ cb_incs = 0
    /\ cb_decs = 0
    /\ m_sent = 0
    /\ m_answered = 0
    /\ m_overlap = FALSE

OtherInit ==
    /\ CallStart("BaseClient", FALSE)
    /\ ConnInit
    /\ PortStart(PORT)
    /\ CbStart(TRUE)

Init == ClientInit /\ ReadInit /\ DispStart(TRUE, {}) /\ OtherInit

Next ==
    \/ Send
    \/ RecvLoop
    \/ RecvTimeout
    \/ RecvDrain
    \/ Arrive
    \/ ServerReply
    \/ PeerClose

Spec == Init /\ [][Next]_vars

\* The client with a scheduler that lets it run: a socket.recv call returns
\* when bytes wait for it, and the loop condition is evaluated again after a
\* socket.recv call returned. Nothing is asked of the peer or the network.
FairSpec ==
    /\ Spec
    /\ WF_vars(RecvLoop)
    /\ WF_vars(RecvTimeout)
    /\ WF_vars(RecvDrain)


\* ------------------------------------------------------------ client claims
\* The reply the server builds for the k-th request of the connection, and
\* the position in the stream where its frame ends.
Expected(k) == ExampleProcessData(requests[k])

RECURSIVE FrameEnd(_)
FrameEnd(k) == IF k = 0 THEN 0 ELSE FrameEnd(k - 1) + Len(Frame(Expected(k)))

Current == Len(requests)

\* send has just returned a reply dict to its caller.
Returned == pc = "idle" /\ outcome = "reply"

\* The reply returned is the server's reply to the request just sent, read
\* from that reply's own frame.
Genuine == consumed = FrameEnd(Current) /\ res = Expected(Current)

\* C1: on one networked connection, whatever the timing of the replies, the
\* reply that send returns for a request is the server's reply to that same
\* request, never the reply to an earlier request whose receive timed out.
C1_ReplyIsForItsRequest == Returned => Genuine


\* C2: after N receive calls timed out, the client has dropped exactly N stale
\* replies (discard_count back at 0) when it returns a reply again, and that
\* reply is the genuine one; also when a timeout fell between header and body,
\* so no later receive reads the rest of a stale frame as a header.
C2_DiscardsMatchTimeouts ==
    /\ Returned => (discards = timeouts /\ discard_count = 0 /\ Genuine)
    /\ pc = "idle" => outcome # "ValueError"


\* The latest recv call began at the first byte of the frame of reply k.
StartsAtFrame(k) == k \in 1..Len(requests) /\ recv_start = FrameEnd(k - 1)

\* The latest recv call began with discard_count = 0 and ended inside its
\* polling loop (it returned or raised there, the timeout did not strike).
EndedInLoop ==
    /\ pc = "idle"
    /\ outcome \in {"reply", "ValueError"}
    /\ ~timed_out
    /\ recv_discard = 0

\* C3: recv, started with discard_count = 0 at the first byte of a framed
\* reply whose bytes all arrive before the timeout, in chunks of any size,
\* returns the decoded body of that reply and has consumed exactly the
\* HEADER_SIZE bytes of the header plus the declared length.
C3_RecvReassemblesFrame ==
    \A k \in 1..MaxCalls :
        (EndedInLoop /\ StartsAtFrame(k)) =>
            /\ outcome = "reply"
            /\ res = Expected(k)
            /\ consumed = recv_start + HEADER_SIZE + Len(JsonDumps(Expected(k)))

\* The reply to an unknown command (six JSON tokens) was reassembled by a
\* recv call that began with discard_count = 0.
C3_Witness ==
    /\ EndedInLoop
    /\ StartsAtFrame(1)
    /\ outcome = "reply"
    /\ requests = <<[cmd |-> "unknown_op", args |-> <<>>]>>
    /\ consumed = HEADER_SIZE + 6

\* BaseClient.is_valid_reply: an empty reply and a reply with success false
\* are not valid.
IsValidReply(reply) == reply # EmptyDict /\ reply["success"]

\* BaseClient.ping came back from send for the latest request: send returned
\* a reply, or recv raised on a header that is not a number. (A ping whose own
\* receive timed out is left aside.)
PingCameBack ==
    /\ pc = "idle"
    /\ Current > 0
    /\ requests[Current]["cmd"] = "ping"
    /\ outcome \in {"reply", "ValueError"}

\* C9: on a connection to a server that answers, ping returns true whatever
\* came before on that connection: failed or invalid commands and receive
\* timeouts of earlier requests.
C9_PingSucceeds == PingCameBack => (outcome = "reply" /\ IsValidReply(res))

\* C12: when the reply does not arrive within the timeout, send hands its
\* caller a value instead of raising, and once a receive has timed out the
\* next reply returned on the connection is still the reply to its own
\* request.
C12_TimeoutFailsGracefully ==
    /\ pc = "idle" => outcome # "RuntimeError"
    /\ (Returned /\ timeouts > 0) => Genuine

\* C26: every call of recv terminates, by returning a reply or by raising,
\* whatever the peer sends or fails to send: a client that is inside recv
\* is eventually back at its caller.
C26_RecvTerminates == (pc # "idle") ~> (pc = "idle")

\* C27: discard_count is never negative, whatever the sequence of send and
\* recv calls, timeouts and late arrivals; it goes up only by one, when a
\* receive reaches its timeout, and down only by one, when a read has taken
\* the last bytes of a reply body.
C27_DiscardCountNonNegative ==
    [][ /\ discard_count' >= 0
        /\ discard_count' > discard_count =>
               (RecvTimeout /\ discard_count' = discard_count + 1)
        /\ discard_count' < discard_count =>
               /\ discard_count' = discard_count - 1
               /\ reply_length > 0
               /\ consumed' = consumed + bytes_remaining ]_vars

\* Both ways down have been taken: a stale reply was dropped inside the
\* polling loop, a receive that reached its timeout found the rest of its
\* body, and another receive raised the timeout error.
C27_Witness ==
    /\ pc = "idle"
    /\ discards > 0
    /\ timeouts > 0
    /\ timed_out
    /\ outcome = "reply"

\* The header recv is reading, once the bytes it still lacks are taken from
\* those that wait in the socket.
PendingHeader == total_data \o SubSeq(stream, consumed + 1, consumed + bytes_remaining)

\* The bytes that wait in the socket hold the rest of the message recv is
\* reading: the rest of its body, or the rest of its header and the body of
\* the length that header declares.
MessageWaits ==
    IF reply_length > 0 THEN Avail >= bytes_remaining
    ELSE /\ Avail >= bytes_remaining
         /\ IntValid(PendingHeader)
         /\ Avail >= bytes_remaining + IntValue(PendingHeader)

\* C23: when the polling loop of recv has reached the timeout, the one read
\* attempt that follows returns the message if the bytes that have arrived
\* complete it (the rest of the header and the body, or the rest of the
\* body), and otherwise recv raises the timeout error.
C23_DrainCompletesMessage ==
    [][ RecvDrain =>
            IF MessageWaits THEN outcome' = "reply" ELSE outcome' = "RuntimeError" ]_vars




\* -------------------------------------------------------- BaseServer._read
\* QByteArray.toInt(): surrounding whitespace is skipped, the rest must be
\* decimal digits; the second component of its result is the validity flag.
ToIntValid(ba) ==
    LET t == RStrip(LStrip(ba))
    IN  t # <<>> /\ \A i \in 1..Len(t) : IsDigit(t[i])

ToIntValue(ba) == DecimalValue(RStrip(LStrip(ba)))

\* QTcpSocket.read(n): at most n of the bytes that are waiting
Take(s, n) == SubSeq(s, 1, Min(n, Len(s)))
Drop(s, n) == SubSeq(s, Min(n, Len(s)) + 1, Len(s))

\* BaseClient.send: the framed request, header from '{0:10d}'
RequestFrame(req) == FormatD(Len(JsonDumps(req)), HEADER_SIZE) \o JsonDumps(req)

\* The reply _write_error builds.
ErrorReply(text) == [success |-> FALSE, msg |-> text, cmd |-> "unknown"]

InvalidHeader == <<"Invalid header">>

\* The while loop of _read on the bytes waiting in the socket. st holds the
\* socket buffer (buf), the local json_data (json), _bytes_remaining (rem),
\* _retrieved_data (ret), the calls of _process_data (disp), the replies
\* handed to _write (out), the exception that ended the loop (err) and the
\* history of events (log); a rejected header is logged with its length.
\* Mutant of ProcessDataEvents: the request is dispatched and its reply is
\* not written before _read goes on.
ProcessDataEventsUnanswered(log, n, waiting) ==
    Append(log, <<IF waiting > 0 THEN "dispatch+" ELSE "dispatch", n>>)

\* What one call of _process_data adds to the history: the n-th dispatch
\* ("dispatch+" when bytes of a later frame were waiting in the socket behind
\* the request), then the write of its reply, before _process_data returns
\* to _read.
ProcessDataEvents(log, n, waiting) ==
    log \o << <<IF waiting > 0 THEN "dispatch+" ELSE "dispatch", n>>, <<"write", n>> >>

\* Mutant of RejectHeader: the bytes behind the header stay in the socket.
RejectHeaderNoPurge(st, hdr) ==
    [st EXCEPT !.rem = -1,
               !.out = Append(@, ErrorReply(InvalidHeader)),
               !.log = Append(@, <<"error", Len(hdr)>>),
               !.ret = <<>>,
               !.buf = Drop(st.buf, HEADER_SIZE)]

\* The branch of _read for a header that toInt does not accept: the error
\* reply is written, _retrieved_data is emptied, readAll() drops what waits
\* in the socket, and _read returns.
RejectHeader(st, hdr) ==
    [st EXCEPT !.rem = -1,
               !.out = Append(@, ErrorReply(InvalidHeader)),
               !.log = Append(@, <<"error", Len(hdr)>>),
               !.ret = <<>>,
               !.buf = <<>>]

RECURSIVE ReadLoop(_)
ReadLoop(st) ==
    IF st.buf = <<>> THEN [st EXCEPT !.ret = st.json]
    ELSE
        LET needHeader == st.rem <= 0
            hdr == Take(st.buf, HEADER_SIZE)
        IN
        IF needHeader /\ ~ToIntValid(hdr) THEN
            RejectHeader(st, hdr)
        ELSE
            LET buf1 == IF needHeader THEN Drop(st.buf, HEADER_SIZE) ELSE st.buf
                rem1 == IF needHeader THEN ToIntValue(hdr) ELSE st.rem
            IN
            IF rem1 > 0 THEN
                LET body == Take(buf1, rem1)
                    rem2 == rem1 - Len(body)
                    json2 == st.json \o body
                    buf2 == Drop(buf1, rem1)
                IN
                IF rem2 = 0 THEN
                    IF ~JsonValid(json2) THEN
                        [st EXCEPT !.buf = buf2, !.rem = -1, !.err = "ValueError"]
                    ELSE IF "cmd" \notin DOMAIN JsonLoads(json2) THEN
                        [st EXCEPT !.buf = buf2, !.rem = -1, !.ret = <<>>,
                                   !.err = "KeyError"]
                    ELSE
                        ReadLoop([st EXCEPT
                            !.buf = buf2, !.rem = -1, !.json = <<>>, !.ret = <<>>,
                            !.disp = Append(@, JsonLoads(json2)),
                            !.out = Append(@, ExampleProcessData(JsonLoads(json2))),
                            !.log = ProcessDataEvents(@, Len(st.disp) + 1, Len(buf2))])
                ELSE
                    ReadLoop([st EXCEPT !.buf = buf2, !.rem = rem2, !.json = json2])
            ELSE
                ReadLoop([st EXCEPT !.buf = buf1, !.rem = rem1])

\* A client writes one framed request to the connection (sendall).
ClientWrite ==
    /\ Len(sent) < MaxRequests
    /\ \E r \in ClientRequests :
        /\ sent' = Append(sent, r)
        /\ wire' = wire \o RequestFrame(r)
    /\ UNCHANGED <<sock, retrieved_data, srv_remaining, dispatched, written, read_error,
                   events, splits>>
    /\ UNCHANGED <<clientVars, dispVars, callVars, connVars, portVars, cbVars>>

\* Bytes in flight reach the server's socket: all of them, or only the first
\* byte, the first HEADER_SIZE - 1 bytes or the first HEADER_SIZE bytes.
Deliver ==
    /\ wire # <<>>
    /\ \E n \in {1, HEADER_SIZE - 1, HEADER_SIZE, Len(wire)} :
        /\ n <= Len(wire)
        /\ n < Len(wire) => splits < MaxSplits
        /\ splits' = IF n < Len(wire) THEN splits + 1 ELSE splits
        /\ sock' = sock \o SubSeq(wire, 1, n)
        /\ wire' = SubSeq(wire, n + 1, Len(wire))
    /\ UNCHANGED <<sent, retrieved_data, srv_remaining, dispatched, written, read_error,
                   events>>
    /\ UNCHANGED <<clientVars, dispVars, callVars, connVars, portVars, cbVars>>

\* readyRead: _read runs on the bytes that wait in the socket.
Read ==
    /\ sock # <<>>
    /\ LET st == ReadLoop([buf |-> sock, json |-> retrieved_data, rem |-> srv_remaining,
                           ret |-> retrieved_data, disp |-> dispatched, out |-> written,
                           err |-> "none", log |-> events])
       IN  /\ sock' = st.buf
           /\ retrieved_data' = st.ret
           /\ srv_remaining' = st.rem
           /\ dispatched' = st.disp
           /\ written' = st.out
           /\ read_error' = st.err
           /\ events' = st.log
    /\ UNCHANGED <<sent, wire, splits>>
    /\ UNCHANGED <<clientVars, dispVars, callVars, connVars, portVars, cbVars>>

ReadNext ==
    \/ ClientWrite
    \/ Deliver
    \/ Read

SpecRead == Init /\ [][ReadNext]_vars

\* dispatched is a prefix of the requests written.
IsPrefix(s, t) == Len(s) <= Len(t) /\ \A i \in 1..Len(s) : s[i] = t[i]

\* C4: however the bytes of well-formed framed requests are split across
\* readiness notifications, _read passes each request to _process_data once,
\* as it was sent and in order, never writes 'Invalid header' and never fails.
C4_ReadReassemblesRequests ==
    /\ IsPrefix(dispatched, sent)
    /\ \A i \in 1..Len(written) : written[i]["msg"] # InvalidHeader
    /\ read_error = "none"
    /\ (wire = <<>> /\ sock = <<>>) => dispatched = sent

\* A message as the protocol frames it: HEADER_SIZE digits, the length of the
\* body in decimal padded on the left with '0', then that many body bytes.
WellFramed(f) ==
    /\ Len(f) >= HEADER_SIZE
    /\ \A k \in 1..HEADER_SIZE : IsDigit(f[k])
    /\ DecimalValue(SubSeq(f, 1, HEADER_SIZE)) = Len(f) - HEADER_SIZE

\* C15: every message put on the wire, the requests the client framed and
\* the replies and error replies the server framed, has a header of exactly
\* 10 characters, the decimal body length left-padded with '0', followed by
\* exactly that many body bytes.
C15_ZeroPaddedFrames ==
    /\ \A i \in 1..Len(sent) : WellFramed(RequestFrame(sent[i]))
    /\ \A j \in 1..Len(written) : WellFramed(Frame(written[j]))

IsDispatch(e) == e[1] \in {"dispatch", "dispatch+"}

\* s can be read inside t from left to right.
RECURSIVE IsSubsequence(_, _)
IsSubsequence(s, t) ==
    IF s = <<>> THEN TRUE
    ELSE IF t = <<>> THEN FALSE
    ELSE IF Head(s) = Head(t) THEN IsSubsequence(Tail(s), Tail(t))
    ELSE IsSubsequence(s, Tail(t))

\* C14: on one connection the requests are dispatched in the order they were
\* sent, the reply to a request is written right after its dispatch and
\* before the next request is dispatched, and so the replies are written in
\* the order of the requests; also when both frames wait in the socket when
\* _read runs.
C14_RepliesInRequestOrder ==
    /\ IsSubsequence(dispatched, sent)
    /\ \A i \in 1..Len(events) :
        IsDispatch(events[i]) =>
            /\ i < Len(events)
            /\ events[i + 1] = <<"write", events[i][2]>>
    /\ \A i, j \in 1..Len(events) :
        (i < j /\ events[i][1] = "write" /\ events[j][1] = "write") =>
            events[i][2] < events[j][2]

\* Two different requests were dispatched and answered in order, the second
\* of them already waiting in the socket when the first was dispatched.
C14_Witness ==
    /\ events = << <<"dispatch+", 1>>, <<"write", 1>>, <<"dispatch", 2>>, <<"write", 2>> >>
    /\ dispatched = sent
    /\ sent[1] # sent[2]

\* _read is about to read HEADER_SIZE header bytes that do not parse.
ReadsBadHeader ==
    /\ srv_remaining <= 0
    /\ Len(sock) >= HEADER_SIZE
    /\ ~ToIntValid(Take(sock, HEADER_SIZE))

\* The framing state after a rejected header, with exactly the frame of one
\* request waiting in the socket.
FollowingRequest(r) ==
    /\ events # <<>>
    /\ events[Len(events)][1] = "error"
    /\ srv_remaining = -1
    /\ retrieved_data = <<>>
    /\ sock = RequestFrame(r)

\* C16: when _read reads 10 header bytes that do not parse as an integer it
\* writes one 'Invalid header' error reply, drops the retained partial body
\* and every byte waiting in the socket, is back at 'expect header',
\* dispatches nothing and does not fail; a well-formed request that follows
\* is then dispatched and answered as usual.
C16_InvalidHeaderRecovery ==
    [][ /\ (Read /\ ReadsBadHeader) =>
            /\ written' = Append(written, ErrorReply(InvalidHeader))
            /\ sock' = <<>>
            /\ retrieved_data' = <<>>
            /\ srv_remaining' = -1
            /\ dispatched' = dispatched
            /\ read_error' = "none"
        /\ \A r \in ClientRequests :
            (Read /\ FollowingRequest(r)) =>
                /\ dispatched' = Append(dispatched, r)
                /\ written' = Append(written, ExampleProcessData(r))
                /\ sock' = <<>>
                /\ srv_remaining' = -1
                /\ read_error' = "none" ]_vars

\* A header of 10 bytes was rejected, and the next thing the server did was
\* to dispatch and answer the request that followed.
C16_Witness ==
    /\ \E i \in 1..Len(events) :
        /\ events[i] = <<"error", HEADER_SIZE>>
        /\ i + 2 = Len(events)
        /\ IsDispatch(events[i + 1])
    /\ written[Len(written) - 1] = ErrorReply(InvalidHeader)
    /\ written[Len(written)] = ExampleProcessData(sent[Len(sent)])
    /\ sock = <<>>
    /\ wire = <<>>




\* ------------------------------------------------------ DccServer dispatch
MaxModules == 2

\* Public methods of DccServer found by inspect.getmembers.
DccServerFunctions ==
    {"close_connection", "send_callback", "select_node", "selected_nodes",
     "clear_selection", "get_control_colors", "get_fonts", "enable_undo", "disable_undo"}

\* Commands _process_data handles before it reaches _process_command.
BootstrapCommands == {"update_paths", "update_dcc_paths", "init_dcc", "get_dcc_info"}

\* Command names of the requests of the model.
DccCommands ==
    {"ping", "update_paths", "update_dcc_paths", "init_dcc", "get_dcc_info",
     "select_node", "send_callback", "close_connection", "echo", "unknown_op"}

\* Names the executor may expose: one that is also a registered handler, and
\* one that is not.
ExecutorNames == {"select_node", "echo"}

\* How the code a target calls behaves: it returns, it raises an exception
\* that is not a TypeError, or it raises a TypeError.
Behaviours == {"ok", "raise", "typeerror"}

\* The ways _process_command calls an executor operation.
Forms == {"args_kwargs", "kwargs", "args", "noargs"}

ExecValue == "value"

\* Executor operations by signature: whether getargspec reports **kwargs, the
\* call forms that bind for the request at hand, and the value returned.
Signatures ==
    { [varkw |-> FALSE, binds |-> {"noargs"}, returns |-> ExecValue],
      [varkw |-> FALSE, binds |-> {"args"}, returns |-> ExecValue],
      [varkw |-> TRUE, binds |-> {"kwargs"}, returns |-> ExecValue],
      [varkw |-> TRUE, binds |-> {"kwargs", "noargs"}, returns |-> ExecValue],
      [varkw |-> TRUE, binds |-> Forms, returns |-> ExecValue] }

\* The executor operation `def echo(text): return text` for the request
\* data: no **kwargs; it binds when text is passed as a keyword.
EchoOp(data) ==
    [varkw |-> FALSE,
     binds |-> IF "text" \in DOMAIN data THEN {"args_kwargs", "kwargs"} ELSE {},
     returns |-> IF "text" \in DOMAIN data THEN data["text"] ELSE None]

\* What one _process_command or bootstrap call did: the reply dict, whether an
\* exception left it, the history counters, and len(_modules_to_import).
Out(reply, raised, traised, route, hcalls, runs, mods) ==
    [reply |-> reply, raised |-> raised, traised |-> traised, route |-> route,
     hcalls |-> hcalls, runs |-> runs, mods |-> mods]

\* One call of an executor operation in the given form: binding fails with a
\* TypeError before the body runs, otherwise the body runs and behaves.
TryForm(op, form, beh) ==
    IF form \notin op.binds THEN [exc |-> "TypeError", ran |-> 0]
    ELSE IF beh = "ok" THEN [exc |-> "none", ran |-> 1]
    ELSE IF beh = "raise" THEN [exc |-> "Exception", ran |-> 1]
    ELSE [exc |-> "TypeError", ran |-> 1]

\* The executor branch of DccServer._process_command.
ExecutorCall(reply, op, beh, mods) ==
    LET r0 == Put(reply, "success", TRUE)
        done == Put(r0, "result", op.returns)
        t1 == TryForm(op, "args_kwargs", beh)
        t2 == TryForm(op, "kwargs", beh)
        t3 == TryForm(op, "args", beh)
        t4 == TryForm(op, "noargs", beh)
    IN
    IF ~op.varkw THEN
        IF t4.exc = "none" THEN Out(done, FALSE, FALSE, "executor", 0, t4.ran, mods)
        ELSE Out(r0, TRUE, t4.ran > 0, "executor", 0, t4.ran, mods)
    ELSE IF t1.exc = "none" THEN
        Out(done, FALSE, FALSE, "executor", 0, t1.ran, mods)
    ELSE IF t1.exc = "Exception" THEN
        \* except Exception as exc: logger.error(exc)
        Out(r0, FALSE, TRUE, "executor", 0, t1.ran, mods)
    ELSE IF t2.exc = "none" THEN
        Out(done, FALSE, t1.ran > 0, "executor", 0, t1.ran + t2.ran, mods)
    ELSE IF t2.exc = "Exception" THEN
        Out(r0, TRUE, TRUE, "executor", 0, t1.ran + t2.ran, mods)
    ELSE IF t3.exc = "none" THEN
        Out(done, FALSE, t1.ran + t2.ran > 0, "executor", 0,
            t1.ran + t2.ran + t3.ran, mods)
    ELSE IF t3.exc = "Exception" THEN
        Out(r0, TRUE, TRUE, "executor", 0, t1.ran + t2.ran + t3.ran, mods)
    ELSE IF t4.exc = "none" THEN
        Out(done, FALSE, t1.ran + t2.ran + t3.ran > 0, "executor", 0,
            t1.ran + t2.ran + t3.ran + t4.ran, mods)
    ELSE
        Out(r0, TRUE, t1.ran + t2.ran + t3.ran + t4.ran > 0, "executor", 0,
            t1.ran + t2.ran + t3.ran + t4.ran, mods)

\* A registered handler of DccServer called with (data, reply).
DccHandler(name, reply, beh, mods) ==
    IF name = "close_connection" THEN
        \* close_connection(self) does not take (data, reply): TypeError
        Out(reply, TRUE, TRUE, "handler", 1, 0, mods)
    ELSE IF name = "send_callback" THEN
        \* starts the sending thread and leaves the reply as it is
        Out(reply, FALSE, FALSE, "handler", 1, 0, mods)
    ELSE IF beh = "ok" THEN
        Out(Put(reply, "success", TRUE), FALSE, FALSE, "handler", 1, 0, mods)
    ELSE
        \* the call into self._dcc raised
        Out(reply, TRUE, TRUE, "handler", 1, 0, mods)

\* Mutant of DccProcessCommand: the executor is asked before the handler table.
DccProcessCommandExecutorFirst(name, reply, attrs, op, beh, mods) ==
    IF name \in attrs THEN ExecutorCall(reply, op, beh, mods)
    ELSE IF name \in DccServerFunctions THEN DccHandler(name, reply, beh, mods)
    ELSE Out(Put(reply, "msg", InvalidCommand(name)), FALSE, FALSE, "invalid", 0, 0, mods)

\* DccServer._process_command
DccProcessCommand(name, reply, attrs, op, beh, mods) ==
    IF name \in DccServerFunctions THEN DccHandler(name, reply, beh, mods)
    ELSE IF name \in attrs THEN ExecutorCall(reply, op, beh, mods)
    ELSE Out(Put(reply, "msg", InvalidCommand(name)), FALSE, FALSE, "invalid", 0, 0, mods)

HasPaths(data) == "paths" \in DOMAIN data /\ data["paths"] # <<>>

\* DccServer._update_paths; paths.insert on the values of the dict raises
\* where dict.values() is a view.
UpdatePaths(data, reply, doUpdate, beh, mods) ==
    IF ~doUpdate THEN
        Out(Put(Put(reply, "success", TRUE), "exe", "python"), FALSE, FALSE,
            "bootstrap", 0, 0, mods)
    ELSE IF ~HasPaths(data) THEN
        Out(Put(reply, "success", FALSE), FALSE, FALSE, "bootstrap", 0, 0, mods)
    ELSE IF beh = "ok" THEN
        Out(Put(Put(reply, "success", TRUE), "exe", "python"), FALSE, FALSE,
            "bootstrap", 0, 0, mods)
    ELSE
        Out(reply, TRUE, TRUE, "bootstrap", 0, 0, mods)

\* DccServer._update_dcc_paths; a module that fails to import is logged and
\* skipped, one that imports is appended to _modules_to_import.
UpdateDccPaths(data, reply, doUpdate, beh, mods) ==
    IF ~doUpdate THEN
        Out(Put(reply, "success", TRUE), FALSE, FALSE, "bootstrap", 0, 0, mods)
    ELSE IF ~HasPaths(data) THEN
        Out(Put(reply, "success", FALSE), FALSE, FALSE, "bootstrap", 0, 0, mods)
    ELSE
        Out(Put(reply, "success", TRUE), FALSE, FALSE, "bootstrap", 0, 0,
            IF beh = "ok" THEN mods + 1 ELSE mods)

\* DccServer._init_dcc
InitDcc(reply, mods) ==
    IF mods = 0
    THEN Out(Put(reply, "success", FALSE), FALSE, FALSE, "bootstrap", 0, 0, mods)
    ELSE Out(Put(reply, "success", TRUE), FALSE, FALSE, "bootstrap", 0, 0, mods)

\* DccServer._get_dcc_info; self._dcc.get_name() may raise.
GetDccInfo(reply, beh, mods) ==
    IF beh = "ok" THEN
        Out(Put(Put(Put(Put(reply, "success", TRUE), "name", "maya"),
                    "version", "2020"), "pid", "4242"),
            FALSE, FALSE, "bootstrap", 0, 0, mods)
    ELSE
        Out(reply, TRUE, TRUE, "bootstrap", 0, 0, mods)

\* DccServer._process_data up to the call of _write: the bootstrap commands
\* run outside the try block, _process_command inside it.
DccProcessData(data, doUpdate, attrs, op, beh, mods) ==
    LET cmd == data["cmd"] IN
    IF cmd = "ping" THEN
        Out(Put(NewReply, "success", TRUE), FALSE, FALSE, "ping", 0, 0, mods)
    ELSE IF cmd = "update_paths" THEN UpdatePaths(data, NewReply, doUpdate, beh, mods)
    ELSE IF cmd = "update_dcc_paths" THEN UpdateDccPaths(data, NewReply, doUpdate, beh, mods)
    ELSE IF cmd = "init_dcc" THEN InitDcc(NewReply, mods)
    ELSE IF cmd = "get_dcc_info" THEN GetDccInfo(NewReply, beh, mods)
    ELSE
        LET out == DccProcessCommand(cmd, NewReply, attrs, op, beh, mods)
        IN  [out EXCEPT !.reply = FinishReply(cmd, out), !.raised = FALSE]


\* Texts sent with echo.
Texts == {"Hello World!", ""}

\* The requests of the dispatch model.
DccRequests ==
    {[cmd |-> c] : c \in DccCommands}
    \cup {[cmd |-> c, paths |-> p] :
            c \in {"update_paths", "update_dcc_paths"}, p \in {<<>>, <<"tpDcc.loader">>}}
    \cup {[cmd |-> "echo", text |-> t] : t \in Texts}

\* Values of BaseClient._status before a request: the initial dict(), and the
\* status DccClient.update_client records once it is connected.
ClientStatuses ==
    {EmptyDict, [msg |-> <<"Connected to: ", "maya", "2020", "4242">>, level |-> "success"]}

\* recv on a socket that holds the whole frame: header, then the body.
RecvWhole(frame) ==
    LET n == IntValue(SubSeq(frame, 1, HEADER_SIZE))
    IN  JsonLoads(SubSeq(frame, HEADER_SIZE + 1, HEADER_SIZE + n))

\* send through the in-process path: json.loads of what _process_data
\* returned; _status is not touched.
InprocSend(reply, st) == [ret |-> JsonLoads(JsonDumps(reply)), status |-> st]

\* send through the socket path: the frame _write wrote is received, and
\* _status becomes the popped 'status' or dict().
NetSend(reply, st) ==
    LET got == RecvWhole(Frame(reply))
    IN  [ret |-> WithoutStatus(got), status |-> StatusOf(got)]

\* getattr(self._dcc, name): the operations the executor may hold under a
\* name it exposes; a name it does not expose stands for no operation.
OpsFor(name, data, attrs) ==
    IF name \in attrs THEN Signatures \cup {EchoOp(data)}
    ELSE {[varkw |-> FALSE, binds |-> {}, returns |-> None]}

\* One request served by DccServer._process_data, sent by a client whose
\* _status was st, once through each path of BaseClient.send.
Dispatch ==
    \E req \in DccRequests, beh \in Behaviours, st \in ClientStatuses :
      \E op \in OpsFor(req["cmd"], req, dcc_attrs) :
        \E out \in {DccProcessData(req, do_update_paths, dcc_attrs, op, beh, modules)} :
            /\ out.mods <= MaxModules
            /\ d_req' = req
            /\ d_raised' = out.raised
            /\ d_route' = out.route
            /\ d_handler_calls' = out.hcalls
            /\ d_exec_runs' = out.runs
            /\ d_target_raised' = out.traised
            /\ d_op' = IF out.route = "executor" THEN op ELSE EmptyDict
            /\ modules' = out.mods
            /\ c_status' = st
            /\ IF out.raised THEN
                   \* no reply: the exception reaches the in-process caller, and
                   \* the socket path never receives an answer
                   /\ d_reply' = EmptyDict
                   /\ ret_inproc' = EmptyDict
                   /\ st_inproc' = st
                   /\ ret_net' = EmptyDict
                   /\ st_net' = st
               ELSE
                   \E a \in {InprocSend(out.reply, st)}, b \in {NetSend(out.reply, st)} :
                       /\ d_reply' = out.reply
                       /\ ret_inproc' = a.ret
                       /\ st_inproc' = a.status
                       /\ ret_net' = b.ret
                       /\ st_net' = b.status
            /\ UNCHANGED <<do_update_paths, dcc_attrs>>
            /\ UNCHANGED <<clientVars, readVars, callVars, connVars, portVars, cbVars>>

DispatchInit ==
    /\ ClientInit
    /\ ReadInit
    /\ OtherInit
    /\ \E doUpdate \in BOOLEAN, attrs \in SUBSET ExecutorNames : DispStart(doUpdate, attrs)

DispatchNext == Dispatch

SpecDispatch == DispatchInit /\ [][DispatchNext]_vars

Served == d_route # "none"

\* C5: a command name in the registered handler table goes to that handler
\* and to nothing else: the executor is never run for it, also when the
\* executor exposes an attribute of the same name.
C5_HandlerTableFirst ==
    (Served /\ d_req["cmd"] \in DccServerFunctions) =>
        (d_route = "handler" /\ d_handler_calls = 1 /\ d_exec_runs = 0)

\* A request for select_node was served while the executor exposes select_node.
C5_Witness ==
    /\ Served
    /\ d_req["cmd"] = "select_node"
    /\ "select_node" \in dcc_attrs
    /\ d_route = "handler"

\* C6: a command that is not ping, not a bootstrap command, not in the handler
\* table and not an attribute of the executor is answered success=false,
\* msg='Invalid command (<name>)', cmd=<name>; nothing is invoked for it.
C6_InvalidCommandReply ==
    (/\ Served
     /\ d_req["cmd"] # "ping"
     /\ d_req["cmd"] \notin BootstrapCommands
     /\ d_req["cmd"] \notin DccServerFunctions
     /\ d_req["cmd"] \notin dcc_attrs) =>
        /\ ~d_raised
        /\ d_reply = [success |-> FALSE, msg |-> InvalidCommand(d_req["cmd"]),
                      result |-> None, cmd |-> d_req["cmd"]]
        /\ d_handler_calls = 0
        /\ d_exec_runs = 0

\* echo was served by a server whose executor exposes select_node but not
\* echo, and was answered with a failure.
C6_Witness ==
    /\ Served
    /\ d_req["cmd"] = "echo"
    /\ "echo" \notin dcc_attrs
    /\ "select_node" \in dcc_attrs
    /\ d_reply["success"] = FALSE


\* C7: when the target of a request (a registered handler, a bootstrap
\* command or an executor operation) raises while it runs, the exception does
\* not leave _process_data and the reply is success=false with the trace text
\* as msg and the command name as cmd.
C7_TargetExceptionBecomesReply ==
    (Served /\ d_target_raised) =>
        /\ ~d_raised
        /\ d_reply = [success |-> FALSE, msg |-> Traceback, result |-> None,
                      cmd |-> d_req["cmd"]]

\* C8: every reply with success=false has a non-empty msg and a cmd equal to
\* the command name of the request.
C8_FailureHasMsgAndCmd ==
    (Served /\ ~d_raised /\ ~d_reply["success"]) =>
        /\ d_reply["msg"] # NoMsg
        /\ "cmd" \in DOMAIN d_reply
        /\ d_reply["cmd"] = d_req["cmd"]

\* C10: for the same server state, executor and request, send returns the
\* same response through the in-process path as through the socket path and
\* leaves the client, which had the same status before, in the same status.
C10_PathsAgree ==
    (Served /\ ~d_raised) => (ret_inproc = ret_net /\ st_inproc = st_net)

\* C19: a request {cmd: 'echo', text: T} to a server whose executor
\* implements echo(text) returning text, echo not being a registered handler,
\* is answered success=true, result=T, for every text T.
C19_EchoThroughExecutor ==
    (/\ Served
     /\ d_req["cmd"] = "echo"
     /\ "text" \in DOMAIN d_req
     /\ "echo" \in dcc_attrs
     /\ d_op = EchoOp(d_req)) =>
        /\ ~d_raised
        /\ d_reply["success"]
        /\ d_reply["result"] = d_req["text"]

\* C24: for a command routed to the executor, whatever the parameter list of
\* the operation, the call forms are tried in the order (*args, **kwargs),
\* keywords only, positionals only, no arguments, and the first form that
\* binds gives the reply: when some form binds and the operation does not
\* raise, the operation ran once and the reply is success=true with the value
\* it returned as result.
C24_FirstBindingFormAnswers ==
    (/\ Served
     /\ d_route = "executor"
     /\ d_op.binds # {}
     /\ ~d_target_raised) =>
        /\ ~d_raised
        /\ d_exec_runs = 1
        /\ d_reply["success"]
        /\ d_reply["result"] = d_op.returns

\* BaseClient.get_status_message and get_status_level
GetStatusMessage(st) == IF "msg" \in DOMAIN st THEN st["msg"] ELSE NoMsg
GetStatusLevel(st) == IF "level" \in DOMAIN st THEN st["level"] ELSE "unknown"

\* What the two getters show of a status record.
VisibleStatus(st) == <<GetStatusMessage(st), GetStatusLevel(st)>>

\* _status after BaseClient.is_valid_reply(reply), called with _status = st:
\* an absent or failed reply leaves it alone, a successful one stores the
\* reply's 'status' or, without one, what the getters show of st.
StatusAfterValidation(reply, st) ==
    IF reply = EmptyDict \/ ~reply["success"] THEN st
    ELSE IF StatusOf(reply) # EmptyDict THEN StatusOf(reply)
    ELSE [msg |-> GetStatusMessage(st), level |-> GetStatusLevel(st)]

\* C25: after a completed request/response cycle (send, then is_valid_reply),
\* through the socket or in-process, with a successful or a failed reply, the
\* status the getters show is the one of that response; nothing of the status
\* the client had before the cycle is left.
C25_StatusOverwritten ==
    (Served /\ ~d_raised) =>
        /\ VisibleStatus(StatusAfterValidation(ret_net, st_net))
               = VisibleStatus(StatusOf(d_reply))
        /\ VisibleStatus(StatusAfterValidation(ret_inproc, st_inproc))
               = VisibleStatus(StatusOf(d_reply))

\* C28: for a request routed to the executor, the body of the operation is
\* executed at most once, also when the operation raises a TypeError while it
\* runs.
C28_ExecutorRunsAtMostOnce ==
    (Served /\ d_route = "executor") => d_exec_runs <= 1



\* ------------------------------------------- client calls: connect and send
\* How many host applications are found running by DccClient._connect.
MaxRunning == 2

\* What socket.connect does: it connects, raises ConnectionRefusedError, or
\* raises another exception.
SocketOutcomes == {"ok", "refused", "error"}

\* The level of _status after the except clauses of _connect.
LevelAfter(level, o) ==
    IF o = "refused" THEN "warning" ELSE IF o = "error" THEN "error" ELSE level

\* What a connect call leaves behind.
Conn(ret, raised, connected, level, socket, last) ==
    [ret |-> ret, raised |-> raised, connected |-> connected, level |-> level,
     socket |-> socket, last |-> last]

\* BaseClient._connect
BaseConnect(o) ==
    Conn(IF o = "ok" THEN "True" ELSE "False", "none", o = "ok",
         LevelAfter(k_level, o), o = "ok", o)

\* The attempts of DccClient._connect on ports i..n, until one connects.
RECURSIVE TryPorts(_, _, _, _)
TryPorts(outs, i, n, level) ==
    IF i > n THEN [ok |-> FALSE, level |-> level, last |-> outs[n]]
    ELSE IF outs[i] = "ok" THEN [ok |-> TRUE, level |-> level, last |-> "ok"]
    ELSE TryPorts(outs, i + 1, n, LevelAfter(level, outs[i]))

\* DccClient._connect(**kwargs): connect_client is the keyword of that name,
\* tool says whether _tool_id is set (supported_dccs is None without it),
\* force is the keyword dcc ("none", or a name the tool supports or not),
\* running the number of host applications found running.
DccConnect(connect_client, tool, force, running, outs) ==
    IF k_server THEN Conn("True", "none", TRUE, "success", k_socket, "none")
    ELSE IF ~connect_client THEN Conn("True", "none", FALSE, k_level, k_socket, "none")
    ELSE IF force # "none" /\ ~tool THEN
        \* force_dcc in supported_dccs, with supported_dccs None
        Conn("none", "TypeError", k_connected, k_level, k_socket, "none")
    ELSE
        LET n == IF force = "supported" \/ running = 0 THEN 1 ELSE running
            t == TryPorts(outs, 1, n, k_level)
        IN  Conn(IF t.ok THEN "True" ELSE "False", "none", t.ok, t.level, t.ok, t.last)

\* The inputs of the latest operation, kept for the record.
In(last, path, name, args, kwargs, request, reply) ==
    [last |-> last, path |-> path, name |-> name, args |-> args, kwargs |-> kwargs,
     request |-> request, reply |-> reply]

\* _connect is called on the client.
Connect ==
    /\ \E connect_client \in BOOLEAN, tool \in BOOLEAN,
          force \in {"none", "supported", "unsupported"},
          running \in 0..MaxRunning, outs \in [1..MaxRunning -> SocketOutcomes] :
        \E c \in {IF k_class = "BaseClient" THEN BaseConnect(outs[1])
                  ELSE DccConnect(connect_client, tool, force, running, outs)} :
            /\ k_ret' = c.ret
            /\ k_raised' = c.raised
            /\ k_connected' = c.connected
            /\ k_level' = c.level
            /\ k_socket' = c.socket
            /\ k_in' = In(c.last, "none", "none", <<>>, EmptyDict, EmptyDict, EmptyDict)
    /\ k_op' = "connect"
    /\ k_wire' = <<>>
    /\ k_executed' = 0
    /\ UNCHANGED <<k_class, k_server>>
    /\ UNCHANGED <<clientVars, readVars, dispVars, connVars, portVars, cbVars>>

\* Method names called on the client, and those a class implements itself.
CallNames == {"echo", "unknown_op", "init_dcc", "send_callback"}

LocalMethods(cls) == IF cls = "DccClient" THEN {"init_dcc"} ELSE {}

\* send_command(cmd_dict): BaseClient does nothing; DccClient runs the
\* operation of that name of its own dcc module, if there is one, a second
\* time with the keywords it accepts when the first call raised TypeError.
SendCommand(cls, has, beh, beh2, resnone) ==
    LET none == [reply |-> EmptyDict, raised |-> "none", executed |-> 0]
        ran == IF resnone THEN [none EXCEPT !.executed = 1]
               ELSE [reply |-> [success |-> TRUE, result |-> ExecValue],
                     raised |-> "none", executed |-> 1]
        failed == [reply |-> EmptyDict, raised |-> "Exception", executed |-> 1]
    IN
    IF cls = "BaseClient" \/ ~has THEN none
    ELSE IF beh = "ok" THEN ran
    ELSE IF beh = "raise" THEN failed
    ELSE IF beh2 = "ok" THEN ran
    ELSE failed

\* BaseClient.send(request) from the state of the client. srv is what the
\* server's _process_data does with the request, net what happens on the
\* socket ("reply", "sendfail" when sendall raises, "timeout"), local what
\* send_command does.
ClientSend(request, srv, net, local) ==
    IF k_server THEN
        IF srv.raised
        THEN [path |-> "inproc", reply |-> EmptyDict, raised |-> "Exception",
              wire |-> <<>>, executed |-> 0, level |-> k_level]
        ELSE [path |-> "inproc", reply |-> JsonLoads(JsonDumps(srv.reply)),
              raised |-> "none", wire |-> <<>>, executed |-> 0, level |-> k_level]
    ELSE IF ~k_connected THEN
        [path |-> "offline", reply |-> local.reply, raised |-> local.raised,
         wire |-> <<>>, executed |-> local.executed, level |-> k_level]
    ELSE IF net = "sendfail" THEN
        [path |-> "socket", reply |-> EmptyDict, raised |-> "none", wire |-> <<>>,
         executed |-> 0, level |-> k_level]
    ELSE IF net = "timeout" \/ srv.raised THEN
        [path |-> "socket", reply |-> EmptyDict, raised |-> "RuntimeError",
         wire |-> <<JsonLoads(JsonDumps(request))>>, executed |-> 0, level |-> k_level]
    ELSE
        [path |-> "socket", reply |-> WithoutStatus(RecvWhole(Frame(srv.reply))),
         raised |-> "none", wire |-> <<JsonLoads(JsonDumps(request))>>,
         executed |-> 0, level |-> "none"]

\* The client is neither connected nor given an in-process server, and send
\* is called with a command.
OfflineSend ==
    /\ ~k_server
    /\ ~k_connected
    /\ \E name \in CallNames, has \in BOOLEAN, beh \in Behaviours,
          beh2 \in {"ok", "raise"}, resnone \in BOOLEAN :
        \E s \in {ClientSend([cmd |-> name], [raised |-> FALSE, reply |-> EmptyDict],
                             "reply", SendCommand(k_class, has, beh, beh2, resnone))} :
            /\ k_ret' = IF s.raised # "none" THEN "none"
                        ELSE IF s.reply = EmptyDict THEN "None"
                        ELSE IF s.reply["success"] THEN "dict_success"
                        ELSE "dict_failure"
            /\ k_raised' = s.raised
            /\ k_wire' = s.wire
            /\ k_executed' = s.executed
            /\ k_in' = In("none", s.path, name, <<>>, EmptyDict, [cmd |-> name], s.reply)
    /\ k_op' = "send"
    /\ UNCHANGED <<k_class, k_server, k_connected, k_level, k_socket>>
    /\ UNCHANGED <<clientVars, readVars, dispVars, connVars, portVars, cbVars>>

\* is_valid_reply reads reply_dict['cmd'] and reply_dict['msg'] of a failure.
IsValidReplyRaises(reply) ==
    /\ reply # EmptyDict
    /\ ~reply["success"]
    /\ ~({"cmd", "msg"} \subseteq DOMAIN reply)

\* The function __getattribute__ builds for a name without implementation,
\* after send came back with s.
NewFn(s) ==
    IF s.raised # "none" THEN [ret |-> "none", raised |-> s.raised, level |-> s.level]
    ELSE IF IsValidReplyRaises(s.reply) THEN
        [ret |-> "none", raised |-> "KeyError", level |-> s.level]
    ELSE IF ~IsValidReply(s.reply) THEN
        [ret |-> "False", raised |-> "none", level |-> s.level]
    ELSE IF "result" \notin DOMAIN s.reply THEN
        [ret |-> "none", raised |-> "KeyError", level |-> s.level]
    ELSE
        [ret |-> s.reply["result"], raised |-> "none",
         level |-> IF s.level = "none" THEN "unknown" ELSE s.level]

CallArgs == {<<>>, <<"a">>}
CallKwargs == {EmptyDict, [text |-> "hi"]}

\* An operation of the dcc module as reroute wraps it: (*args, **kwargs).
WrappedOp == [varkw |-> TRUE, binds |-> Forms, returns |-> ExecValue]

\* A method without local implementation is called on the client; attrs are
\* the names the dcc module exposes, to the server and to the client alike.
DynamicCall ==
    /\ \E name \in CallNames \ LocalMethods(k_class), args \in CallArgs,
          kwargs \in CallKwargs, net \in {"reply", "sendfail", "timeout"},
          attrs \in {{}, {"echo"}}, beh \in Behaviours :
        \* sendall on a socket that was closed raises OSError
        /\ (k_connected /\ ~k_socket /\ ~k_server) => net = "sendfail"
        /\ \E request \in {[k \in DOMAIN kwargs \cup {"cmd", "args"} |->
                            IF k \in DOMAIN kwargs THEN kwargs[k]
                            ELSE IF k = "cmd" THEN name ELSE args]} :
            \E s \in {ClientSend(request,
                                 DccProcessData(request, TRUE, attrs, WrappedOp, beh, 0),
                                 net,
                                 SendCommand(k_class, name \in attrs, beh, "ok", FALSE))} :
                \E f \in {NewFn(s)} :
                    /\ k_ret' = f.ret
                    /\ k_raised' = f.raised
                    /\ k_level' = f.level
                    /\ k_wire' = s.wire
                    /\ k_executed' = s.executed
                    /\ k_in' = In(IF s.path = "socket" THEN net ELSE "none", s.path, name,
                                  args, kwargs, request, s.reply)
    /\ k_op' = "call"
    /\ UNCHANGED <<k_class, k_server, k_connected, k_socket>>
    /\ UNCHANGED <<clientVars, readVars, dispVars, connVars, portVars, cbVars>>

\* What socket.close() does; it fails also when no socket was ever created,
\* the attribute _client_socket being then a function built by
\* __getattribute__, which has no close.
CloseOutcomes == {"ok", "fail"}

\* Mutant of Disconnect: a successful close also clears the connected flag.
DisconnectClearsFlag ==
    /\ k_class = "BaseClient"
    /\ \E o \in CloseOutcomes :
        /\ o = "ok" => k_socket
        /\ k_ret' = IF o = "ok" THEN "True" ELSE "False"
        /\ k_level' = IF o = "ok" THEN k_level ELSE "error"
        /\ k_socket' = IF o = "ok" THEN FALSE ELSE k_socket
        /\ k_connected' = IF o = "ok" THEN FALSE ELSE k_connected
        /\ k_in' = In(o, "none", "none", <<>>, EmptyDict, EmptyDict, EmptyDict)
    /\ k_raised' = "none"
    /\ k_op' = "disconnect"
    /\ k_wire' = <<>>
    /\ k_executed' = 0
    /\ UNCHANGED <<k_class, k_server>>
    /\ UNCHANGED <<clientVars, readVars, dispVars, connVars, portVars, cbVars>>

\* BaseClient._disconnect
Disconnect ==
    /\ k_class = "BaseClient"
    /\ \E o \in CloseOutcomes :
        /\ o = "ok" => k_socket
        /\ k_ret' = IF o = "ok" THEN "True" ELSE "False"
        /\ k_level' = IF o = "ok" THEN k_level ELSE "error"
        /\ k_socket' = IF o = "ok" THEN FALSE ELSE k_socket
        /\ k_in' = In(o, "none", "none", <<>>, EmptyDict, EmptyDict, EmptyDict)
    /\ k_raised' = "none"
    /\ k_op' = "disconnect"
    /\ k_wire' = <<>>
    /\ k_executed' = 0
    /\ UNCHANGED <<k_class, k_server, k_connected>>
    /\ UNCHANGED <<clientVars, readVars, dispVars, connVars, portVars, cbVars>>

CallInit ==
    /\ ClientInit
    /\ ReadInit
    /\ DispStart(TRUE, {})
    /\ ConnInit
    /\ PortStart(PORT)
    /\ CbStart(TRUE)
    /\ \E cls \in {"BaseClient", "DccClient"}, server \in BOOLEAN : CallStart(cls, server)

CallNext ==
    \/ Connect
    \/ OfflineSend
    \/ DynamicCall
    \/ Disconnect

SpecCall == CallInit /\ [][CallNext]_vars

\* C11: with no in-process server and no connection, send fails gracefully
\* for every command: it hands back a failure value (nothing, or a reply with
\* success=false), raises nothing, writes nothing to a socket and runs no
\* command.
C11_OfflineSendFailsGracefully ==
    (k_op = "send" /\ k_in["path"] = "offline") =>
        /\ k_raised = "none"
        /\ k_ret \in {"None", "dict_failure"}
        /\ k_wire = <<>>
        /\ k_executed = 0

\* C17: a connect attempt of a client without in-process server never
\* raises; it returns true exactly when a socket connection was established,
\* and then connected is true; when it returns false connected is false and
\* the status has level 'warning' after a refusal and 'error' after another
\* transport exception.
C17_ConnectOutcome ==
    (k_op = "connect" /\ ~k_server) =>
        /\ k_raised = "none"
        /\ k_ret = "True" <=> k_socket
        /\ k_ret = "True" => k_connected
        /\ k_ret = "False" =>
            /\ ~k_connected
            /\ k_in["last"] = "refused" => k_level = "warning"
            /\ k_in["last"] = "error" => k_level = "error"

\* C18: a method name without local implementation, called on a client that
\* reaches a server, sends the one request {cmd: name, args: the positional
\* arguments, every keyword argument as a field} and returns the result of
\* the reply when the reply has success=true, and false when there is no
\* reply or the reply has success=false.
C18_DynamicCall ==
    (k_op = "call" /\ k_in["path"] \in {"inproc", "socket"}) =>
        /\ k_raised = "none"
        /\ k_in["request"] = k_in["kwargs"] @@ [cmd |-> k_in["name"], args |-> k_in["args"]]
        /\ (k_in["path"] = "socket" /\ k_in["last"] # "sendfail") =>
              k_wire = <<k_in["request"]>>
        /\ k_ret = IF IsValidReply(k_in["reply"]) THEN k_in["reply"]["result"] ELSE "False"

\* The client counts as connected, has no in-process server, and its socket
\* was closed by _disconnect.
ClosedButConnected == k_connected /\ ~k_socket /\ ~k_server

\* C30: _disconnect never raises and changes nothing but the socket and, on
\* a failed close, the status (level 'error', return value false); the
\* connected flag, the port and discard_count stay as they were, so a client
\* that was connected still counts as connected, and a later send on the
\* closed socket ends with no reply (None) and raises nothing.
C30_DisconnectFrame ==
    [][ /\ k_op' = "disconnect" =>
            /\ k_raised' = "none"
            /\ UNCHANGED <<k_connected, k_server, discard_count, p_base, p_assigned>>
            /\ k_ret' = "False" <=> k_in'["last"] = "fail"
            /\ k_level' = IF k_ret' = "False" THEN "error" ELSE k_level
        /\ (k_op' = "call" /\ ClosedButConnected) =>
            /\ k_raised' = "none"
            /\ k_in'["path"] = "socket"
            /\ k_in'["reply"] = EmptyDict
            /\ k_wire' = <<>> ]_vars

\* A method was called on a client after _disconnect closed its socket: the
\* client still counts as connected and send came back without a reply.
C30_Witness ==
    /\ k_op = "call"
    /\ ClosedButConnected
    /\ k_in["path"] = "socket"
    /\ k_in["reply"] = EmptyDict
    /\ k_ret = "False"


\* ------------------------------------- one server, more than one connection
\* newConnection: _on_established_connection stores the new connection in
\* self._socket and binds its readyRead signal to self._read.
Accept(c) ==
    /\ c \notin n_accepted
    /\ n_socket' = c
    /\ n_accepted' = n_accepted \cup {c}
    /\ UNCHANGED <<n_in, n_out, n_sent, n_remaining, n_retrieved, n_ready, n_source>>
    /\ UNCHANGED <<clientVars, readVars, dispVars, callVars, portVars, cbVars>>

\* Requests written so far on all connections.
TotalSent == Len(n_sent[1]) + Len(n_sent[2])

\* The client of connection c writes a framed request; it reaches the
\* server's socket of that connection in one piece.
ConnWrite(c) ==
    /\ c \in n_accepted
    /\ TotalSent < MaxRequests
    /\ \E r \in ClientRequests :
        /\ n_sent' = [n_sent EXCEPT ![c] = Append(@, r)]
        /\ n_in' = [n_in EXCEPT ![c] = @ \o RequestFrame(r)]
    /\ UNCHANGED <<n_socket, n_accepted, n_out, n_remaining, n_retrieved, n_ready, n_source>>
    /\ UNCHANGED <<clientVars, readVars, dispVars, callVars, portVars, cbVars>>

\* readyRead of connection c: _read runs, on self._socket; what it writes
\* goes to self._socket as well.
ReadyRead(c) ==
    /\ c \in n_accepted
    /\ n_in[c] # <<>>
    /\ \E st \in {ReadLoop([buf |-> n_in[n_socket], json |-> n_retrieved,
                            rem |-> n_remaining, ret |-> n_retrieved, disp |-> <<>>,
                            out |-> <<>>, err |-> "none", log |-> <<>>])} :
        /\ n_in' = [n_in EXCEPT ![n_socket] = st.buf]
        /\ n_out' = [n_out EXCEPT ![n_socket] = @ \o st.out]
        /\ n_remaining' = st.rem
        /\ n_retrieved' = st.ret
    /\ n_ready' = c
    /\ n_source' = n_socket
    /\ UNCHANGED <<n_socket, n_accepted, n_sent>>
    /\ UNCHANGED <<clientVars, readVars, dispVars, callVars, portVars, cbVars>>

ConnNext ==
    \/ \E c \in Connections : Accept(c)
    \/ \E c \in Connections : ConnWrite(c)
    \/ \E c \in Connections : ReadyRead(c)

SpecConn == Init /\ [][ConnNext]_vars

\* C13: with more than one connection accepted, a request is read from the
\* connection that signalled readiness, and each connection gets exactly the
\* replies to the requests that arrived on it, one per request.
C13_ReplyOnRequestConnection ==
    /\ n_ready # 0 => n_source = n_ready
    /\ \A c \in Connections :
        /\ Len(n_out[c]) <= Len(n_sent[c])
        /\ \A i \in 1..Len(n_out[c]) : n_out[c][i] = ExampleProcessData(n_sent[c][i])
        /\ n_in[c] = <<>> => Len(n_out[c]) = Len(n_sent[c])


\* ------------------------------------------------------------ port numbers
\* Dccs.ALL, and Dccs.Standalone, which current_dcc returns when no host
\* application is detected.
DccsAll == <<"maya", "max", "mobu", "houdini", "nuke", "unreal">>

Standalone == "standalone"

DccNames == {DccsAll[i] : i \in 1..Len(DccsAll)}

\* ExampleServer.PORT
EXAMPLE_PORT == 17337

\* The base ports of the model.
BasePorts == {PORT, EXAMPLE_PORT}

\* The for loop of dcc_port from the i-th name of Dccs.ALL on.
RECURSIVE DccPortLoop(_, _, _, _)
DccPortLoop(base_port, base_dcc_port, i, dcc) ==
    IF i > Len(DccsAll) THEN base_port
    ELSE IF DccsAll[i] = dcc THEN base_dcc_port + 1
    ELSE DccPortLoop(base_port, base_dcc_port + 1, i + 1, dcc)

\* dcc_port(base_port, dcc_name)
dcc_port(base_port, dcc) == DccPortLoop(base_port, base_port, 1, dcc)

\* CallbackServer.__init__ / CallbackClient.__init__: PORT of the callback
\* channel for a main channel on base_port.
CallbackPort(base_port) == base_port - Len(DccsAll)

\* A server or client of host application d (or of none) computes the port
\* of its main channel.
AssignMain(d) ==
    /\ <<"main", d>> \notin DOMAIN p_assigned
    /\ p_assigned' = Put(p_assigned, <<"main", d>>, dcc_port(p_base, d))
    /\ UNCHANGED p_base
    /\ UNCHANGED <<clientVars, readVars, dispVars, callVars, connVars, cbVars>>

\* It creates its callback channel from the port of its main channel.
AssignCallback(d) ==
    /\ <<"main", d>> \in DOMAIN p_assigned
    /\ <<"callback", d>> \notin DOMAIN p_assigned
    /\ p_assigned' = Put(p_assigned, <<"callback", d>>,
                         CallbackPort(p_assigned[<<"main", d>>]))
    /\ UNCHANGED p_base
    /\ UNCHANGED <<clientVars, readVars, dispVars, callVars, connVars, cbVars>>

PortsInit ==
    /\ ClientInit
    /\ ReadInit
    /\ DispStart(TRUE, {})
    /\ CallStart("BaseClient", FALSE)
    /\ ConnInit
    /\ CbStart(TRUE)
    /\ \E base \in BasePorts : PortStart(base)

PortsNext ==
    \/ \E d \in DccNames \cup {Standalone} : AssignMain(d)
    \/ \E d \in DccNames \cup {Standalone} : AssignCallback(d)

SpecPorts == PortsInit /\ [][PortsNext]_vars

\* The ports the claim speaks of: the main channel of every host application
\* and of standalone, the callback channel of every host application.
ClaimedRoles ==
    {<<"main", d>> : d \in DccNames \cup {Standalone}} \cup {<<"callback", d>> : d \in DccNames}

\* C20: for a base port, the main-channel ports of the host applications, the
\* standalone main-channel port and the callback-channel ports of the host
\* applications are pairwise distinct; no callback port is a main port.
C20_PortsDistinct ==
    \A r1, r2 \in DOMAIN p_assigned \cap ClaimedRoles :
        r1 # r2 => p_assigned[r1] # p_assigned[r2]


\* ------------------------------------------------------- callback channel
\* The (value, callback_type) pairs the host application reports.
CallbackRecords == {<<"node1", "NodeAdded">>, <<"node2", "NodeRemoved">>}

\* The nested dict {'value': value, 'callback_type': callback_type} as one
\* JSON value, and the pair it holds.
Unpack == ("node1/NodeAdded" :> <<"node1", "NodeAdded">>) @@
          ("node2/NodeRemoved" :> <<"node2", "NodeRemoved">>)

Pack(value, callback_type) ==
    CHOOSE r \in DOMAIN Unpack : Unpack[r] = <<value, callback_type>>

\* dict_value of DccServer.send_callback
ServerCallbackRecord(value, callback_type) ==
    [cmd |-> "send_callback", success |-> TRUE, result |-> Pack(value, callback_type)]

\* cmd of CallbackClient.send_callback
ClientCallbackRecord(value, callback_type) ==
    [cmd |-> "send_callback", value |-> value, callback_type |-> callback_type]

\* Public methods of CallbackServer found by inspect.getmembers.
CallbackServerFunctions == {"close_connection", "send_callback"}

\* CallbackServer._process_command; `emitted` holds the arguments of
\* callbackSended.emit. data['result'] raises KeyError when the request has
\* no 'result'; `data['result'] or dict()` turns None into an empty dict.
CallbackProcessCommand(data, reply) ==
    LET cmd == data["cmd"] IN
    IF cmd = "send_callback" THEN
        IF "result" \notin DOMAIN data THEN
            [raised |-> TRUE, reply |-> reply, emitted |-> <<>>]
        ELSE
            LET known == data["result"] \in DOMAIN Unpack
                value == IF known THEN Unpack[data["result"]][1] ELSE None
                callback_type == IF known THEN Unpack[data["result"]][2] ELSE None
            IN  [raised |-> FALSE,
                 reply |-> Put(Put(reply, "result", value), "success", TRUE),
                 emitted |-> << <<value, callback_type>> >>]
    ELSE IF cmd \in CallbackServerFunctions THEN
        \* close_connection(self) called with (data, reply): TypeError
        [raised |-> TRUE, reply |-> reply, emitted |-> <<>>]
    ELSE
        [raised |-> FALSE, reply |-> Put(reply, "msg", InvalidCommand(cmd)),
         emitted |-> <<>>]

\* BaseServer._process_data of the CallbackServer: the reply it writes and
\* what it emitted.
CallbackProcessData(data) ==
    LET cmd == data["cmd"] IN
    IF cmd = "ping" THEN
        [data |-> data, reply |-> Put(NewReply, "success", TRUE), emitted |-> <<>>]
    ELSE
        LET out == CallbackProcessCommand(data, NewReply)
        IN  [data |-> data, reply |-> FinishReply(cmd, out), emitted |-> out.emitted]

\* threading.Thread(target=self._callbacks_client.send, ...).start(): the
\* send runs in a thread of its own.
SendCalledInline == FALSE

SendRunsInThread == TRUE

\* A send started by DccServer.send_callback that has not ended.
HostSends == {t \in Threads : "result" \in DOMAIN t_req[t] /\ t_pc[t] \notin {"none", "done"}}

\* The host thread is in its event loop: it is not inside a send.
HostFree == SendRunsInThread \/ HostSends = {}

\* Callers are numbered in the order in which they call.
NextCaller(t) == t_pc[t] = "none" /\ \A u \in Threads : u < t => t_pc[u] # "none"

\* DccServer.send_callback, called on the host thread: the record is built,
\* the thread is started, and the call returns.
HostSendCallback(t) ==
    /\ HostFree
    /\ NextCaller(t)
    /\ \E r \in CallbackRecords :
        t_req' = [t_req EXCEPT ![t] = ServerCallbackRecord(r[1], r[2])]
    /\ t_pc' = [t_pc EXCEPT ![t] = "send"]
    /\ UNCHANGED <<cb_connected, t_loc, t_out, t_got, cb_wire, cb_log, cb_rejects,
                   cb_stream, cb_ends, cb_consumed, cb_discard, cb_incs, cb_decs,
                   m_sent, m_answered, m_overlap>>
    /\ UNCHANGED <<clientVars, readVars, dispVars, callVars, connVars, portVars>>

\* CallbackClient.send_callback, called by a thread of its own: the record
\* is built and send is entered.
ClientSendCallback(t) ==
    /\ NextCaller(t)
    /\ \E r \in CallbackRecords :
        t_req' = [t_req EXCEPT ![t] = ClientCallbackRecord(r[1], r[2])]
    /\ t_pc' = [t_pc EXCEPT ![t] = "send"]
    /\ UNCHANGED <<cb_connected, t_loc, t_out, t_got, cb_wire, cb_log, cb_rejects,
                   cb_stream, cb_ends, cb_consumed, cb_discard, cb_incs, cb_decs,
                   m_sent, m_answered, m_overlap>>
    /\ UNCHANGED <<clientVars, readVars, dispVars, callVars, connVars, portVars>>

\* BaseClient.send of caller t up to recv. Not connected: send_command does
\* nothing and None is returned. Connected: sendall writes the frame, in one
\* piece or the header first and the rest in a later write of its loop.
ThreadSend(t) ==
    /\ t_pc[t] = "send"
    /\ IF ~cb_connected THEN
           /\ t_pc' = [t_pc EXCEPT ![t] = "done"]
           /\ t_out' = [t_out EXCEPT ![t] = "None"]
           /\ UNCHANGED <<cb_wire, t_loc>>
       ELSE
           /\ \E whole \in BOOLEAN :
               IF whole THEN
                   /\ cb_wire' = cb_wire \o RequestFrame(t_req[t])
                   /\ t_pc' = [t_pc EXCEPT ![t] = "loop"]
               ELSE
                   /\ cb_wire' = cb_wire \o Take(RequestFrame(t_req[t]), HEADER_SIZE)
                   /\ t_pc' = [t_pc EXCEPT ![t] = "rest"]
           /\ t_loc' = [t_loc EXCEPT ![t] = Loc0]
           /\ UNCHANGED t_out
    /\ UNCHANGED <<cb_connected, t_req, t_got, cb_log, cb_rejects, cb_stream, cb_ends,
                   cb_consumed, cb_discard, cb_incs, cb_decs, m_sent, m_answered,
                   m_overlap>>
    /\ UNCHANGED <<clientVars, readVars, dispVars, callVars, connVars, portVars>>

\* sendall of caller t writes what it had not written, then recv is entered.
ThreadSendRest(t) ==
    /\ t_pc[t] = "rest"
    /\ cb_wire' = cb_wire \o Drop(RequestFrame(t_req[t]), HEADER_SIZE)
    /\ t_pc' = [t_pc EXCEPT ![t] = "loop"]
    /\ UNCHANGED <<cb_connected, t_req, t_loc, t_out, t_got, cb_log, cb_rejects,
                   cb_stream, cb_ends, cb_consumed, cb_discard, cb_incs, cb_decs,
                   m_sent, m_answered, m_overlap>>
    /\ UNCHANGED <<clientVars, readVars, dispVars, callVars, connVars, portVars>>

CbAvail == Len(cb_stream) - cb_consumed

\* socket.recv(n) on the shared socket: the next min(n, waiting) bytes
CbSockRecv(n) == SubSeq(cb_stream, cb_consumed + 1, cb_consumed + Min(n, CbAvail))

\* The positions in cb_stream of the bytes a socket.recv(n) call takes
CbTaken(n) == (cb_consumed + 1)..(cb_consumed + Min(n, CbAvail))

\* How the send of caller t ends.
ThreadEnd(t, how) ==
    /\ t_pc' = [t_pc EXCEPT ![t] = "done"]
    /\ t_out' = [t_out EXCEPT ![t] = how]

\* One pass of the polling loop of recv of caller t in which socket.recv
\* returned data. A complete body with _discard_count > 0 is a stale reply:
\* `_discard_count -= 1` loads the counter here and stores it in ThreadStore.
ThreadRecv(t) ==
    /\ t_pc[t] = "loop"
    /\ CbAvail > 0
    /\ LET loc == t_loc[t]
           data == CbSockRecv(loc.rem)
           total == loc.total \o data
           left == loc.rem - Len(data)
       IN  /\ cb_consumed' = cb_consumed + Len(data)
           /\ t_got' = [t_got EXCEPT ![t] = @ \cup CbTaken(loc.rem)]
           /\ IF left > 0 THEN
                  /\ t_loc' = [t_loc EXCEPT ![t] = [loc EXCEPT !.total = total,
                                                               !.rem = left,
                                                               !.polled = TRUE]]
                  /\ UNCHANGED <<t_pc, t_out>>
              ELSE IF loc.len = 0 THEN
                  IF IntValid(total) THEN
                      /\ t_loc' = [t_loc EXCEPT ![t] = [loc EXCEPT !.total = <<>>,
                                                                   !.len = IntValue(total),
                                                                   !.rem = IntValue(total),
                                                                   !.polled = TRUE]]
                      /\ UNCHANGED <<t_pc, t_out>>
                  ELSE
                      /\ ThreadEnd(t, "ValueError")
                      /\ UNCHANGED t_loc
              ELSE IF cb_discard > 0 THEN
                  /\ t_pc' = [t_pc EXCEPT ![t] = "dec_loop"]
                  /\ t_loc' = [t_loc EXCEPT ![t] = [loc EXCEPT !.tmp = cb_discard]]
                  /\ UNCHANGED t_out
              ELSE
                  /\ ThreadEnd(t, IF JsonValid(total) THEN "reply" ELSE "ValueError")
                  /\ UNCHANGED t_loc
    /\ UNCHANGED <<cb_connected, t_req, cb_wire, cb_log, cb_rejects, cb_stream, cb_ends,
                   cb_discard, cb_incs, cb_decs, m_sent, m_answered, m_overlap>>
    /\ UNCHANGED <<clientVars, readVars, dispVars, callVars, connVars, portVars>>

\* The loop condition of recv of caller t fails after a socket.recv call of
\* this invocation returned; `_discard_count += 1` loads the counter.
ThreadTimeout(t) ==
    /\ t_pc[t] = "loop"
    /\ t_loc[t].polled
    /\ t_pc' = [t_pc EXCEPT ![t] = "inc"]
    /\ t_loc' = [t_loc EXCEPT ![t] = [@ EXCEPT !.tmp = cb_discard]]
    /\ UNCHANGED <<cb_connected, t_req, t_out, t_got, cb_wire, cb_log, cb_rejects,
                   cb_stream, cb_ends, cb_consumed, cb_discard, cb_incs, cb_decs,
                   m_sent, m_answered, m_overlap>>
    /\ UNCHANGED <<clientVars, readVars, dispVars, callVars, connVars, portVars>>

\* The store of a `_discard_count += 1` or `-= 1` statement of caller t, and
\* the statement after it: the read after the timeout, recv again after a
\* stale reply, or json.loads of the body the read after the timeout completed.
ThreadStore(t) ==
    /\ t_pc[t] \in {"inc", "dec_loop", "dec_drain"}
    /\ IF t_pc[t] = "inc" THEN
           /\ cb_discard' = t_loc[t].tmp + 1
           /\ cb_incs' = cb_incs + 1
           /\ t_pc' = [t_pc EXCEPT ![t] = "drain"]
           /\ UNCHANGED <<cb_decs, t_loc, t_out>>
       ELSE IF t_pc[t] = "dec_loop" THEN
           /\ cb_discard' = t_loc[t].tmp - 1
           /\ cb_decs' = cb_decs + 1
           /\ t_pc' = [t_pc EXCEPT ![t] = "loop"]
           /\ t_loc' = [t_loc EXCEPT ![t] = Loc0]
           /\ UNCHANGED <<cb_incs, t_out>>
       ELSE
           /\ cb_discard' = t_loc[t].tmp - 1
           /\ cb_decs' = cb_decs + 1
           /\ ThreadEnd(t, IF JsonValid(t_loc[t].total) THEN "reply" ELSE "ValueError")
           /\ UNCHANGED <<cb_incs, t_loc>>
    /\ UNCHANGED <<cb_connected, t_req, t_got, cb_wire, cb_log, cb_rejects, cb_stream,
                   cb_ends, cb_consumed, m_sent, m_answered, m_overlap>>
    /\ UNCHANGED <<clientVars, readVars, dispVars, callVars, connVars, portVars>>

\* The one read attempt of caller t after the timeout, then the timeout
\* error unless the attempt completed a reply body.
ThreadDrain(t) ==
    /\ t_pc[t] = "drain"
    /\ CbAvail > 0
    /\ LET loc == t_loc[t]
           data == CbSockRecv(loc.rem)
           total == loc.total \o data
           left == loc.rem - Len(data)
       IN  /\ cb_consumed' = cb_consumed + Len(data)
           /\ t_got' = [t_got EXCEPT ![t] = @ \cup CbTaken(loc.rem)]
           /\ IF left > 0 THEN
                  /\ ThreadEnd(t, "RuntimeError")
                  /\ UNCHANGED t_loc
              ELSE IF loc.len = 0 THEN
                  /\ ThreadEnd(t, IF IntValid(total) THEN "RuntimeError" ELSE "ValueError")
                  /\ UNCHANGED t_loc
              ELSE
                  /\ t_pc' = [t_pc EXCEPT ![t] = "dec_drain"]
                  /\ t_loc' = [t_loc EXCEPT ![t] = [loc EXCEPT !.total = total,
                                                               !.tmp = cb_discard]]
                  /\ UNCHANGED t_out
    /\ UNCHANGED <<cb_connected, t_req, cb_wire, cb_log, cb_rejects, cb_stream, cb_ends,
                   cb_discard, cb_incs, cb_decs, m_sent, m_answered, m_overlap>>
    /\ UNCHANGED <<clientVars, readVars, dispVars, callVars, connVars, portVars>>

\* The peer writes a reply: its bytes, and where the frame ends.
PeerWrite(reply) ==
    /\ cb_stream' = cb_stream \o Frame(reply)
    /\ cb_ends' = Append(cb_ends, Len(cb_stream) + Len(Frame(reply)))

\* _read of the CallbackServer on the bytes waiting in its socket, when they
\* hold a header toInt rejects or a header and the whole body it announces.
PeerRead ==
    /\ Len(cb_wire) >= HEADER_SIZE
    /\ LET hdr == Take(cb_wire, HEADER_SIZE)
           rest == Drop(cb_wire, HEADER_SIZE)
       IN  IF ~ToIntValid(hdr) THEN
               \* 'Invalid header': the error reply, and readAll() purges
               /\ PeerWrite(ErrorReply(InvalidHeader))
               /\ cb_wire' = <<>>
               /\ cb_rejects' = cb_rejects + 1
               /\ UNCHANGED cb_log
           ELSE
               LET n == ToIntValue(hdr)
                   json == Take(rest, n)
               IN  /\ n > 0
                   /\ Len(rest) >= n
                   /\ cb_wire' = Drop(rest, n)
                   /\ IF JsonValid(json) /\ "cmd" \in DOMAIN JsonLoads(json) THEN
                          LET e == CallbackProcessData(JsonLoads(json))
                          IN  /\ PeerWrite(e.reply)
                              /\ cb_log' = Append(cb_log, e)
                              /\ UNCHANGED cb_rejects
                      ELSE
                          \* json.loads or data_dict['cmd'] raises in the slot
                          /\ cb_rejects' = cb_rejects + 1
                          /\ UNCHANGED <<cb_log, cb_stream, cb_ends>>
    /\ UNCHANGED <<cb_connected, t_pc, t_req, t_loc, t_out, t_got, cb_consumed,
                   cb_discard, cb_incs, cb_decs, m_sent, m_answered, m_overlap>>
    /\ UNCHANGED <<clientVars, readVars, dispVars, callVars, connVars, portVars>>

\* A client of the main channel writes a request to the DccServer.
MainRequest ==
    /\ m_sent < MaxRequests
    /\ m_sent' = m_sent + 1
    /\ UNCHANGED <<cb_connected, t_pc, t_req, t_loc, t_out, t_got, cb_wire, cb_log,
                   cb_rejects, cb_stream, cb_ends, cb_consumed, cb_discard, cb_incs,
                   cb_decs, m_answered, m_overlap>>
    /\ UNCHANGED <<clientVars, readVars, dispVars, callVars, connVars, portVars>>

\* A callback send that is in recv and has taken no byte of a reply.
Unanswered == {t \in Threads : t_pc[t] = "loop" /\ t_got[t] = {}}

\* readyRead on the host thread's event loop: _read takes the next request of
\* the main channel, _process_data dispatches it and writes the reply.
MainServe ==
    /\ HostFree
    /\ m_answered < m_sent
    /\ m_answered' = m_answered + 1
    /\ m_overlap' = (m_overlap \/ Unanswered # {})
    /\ UNCHANGED <<cb_connected, t_pc, t_req, t_loc, t_out, t_got, cb_wire, cb_log,
                   cb_rejects, cb_stream, cb_ends, cb_consumed, cb_discard, cb_incs,
                   cb_decs, m_sent>>
    /\ UNCHANGED <<clientVars, readVars, dispVars, callVars, connVars, portVars>>

CallbackInit ==
    /\ ClientInit
    /\ ReadInit
    /\ DispStart(TRUE, {})
    /\ CallStart("BaseClient", FALSE)
    /\ ConnInit
    /\ PortStart(PORT)
    /\ \E connected \in BOOLEAN : CbStart(connected)

CallbackNext ==
    \/ \E t \in Threads : HostSendCallback(t)
    \/ \E t \in Threads : ClientSendCallback(t)
    \/ \E t \in Threads : ThreadSend(t)
    \/ \E t \in Threads : ThreadSendRest(t)
    \/ \E t \in Threads : ThreadRecv(t)
    \/ \E t \in Threads : ThreadTimeout(t)
    \/ \E t \in Threads : ThreadStore(t)
    \/ \E t \in Threads : ThreadDrain(t)
    \/ PeerRead

SpecCallback == CallbackInit /\ [][CallbackNext]_vars

\* The (value, callback_type) pair a request on the callback channel carries,
\* in either of the two forms the senders build.
IsCallbackRecord(data) ==
    /\ "cmd" \in DOMAIN data
    /\ data["cmd"] = "send_callback"
    /\ \/ "result" \in DOMAIN data /\ data["result"] \in DOMAIN Unpack
       \/ {"value", "callback_type"} \subseteq DOMAIN data

RecordOf(data) ==
    IF "result" \in DOMAIN data THEN Unpack[data["result"]]
    ELSE <<data["value"], data["callback_type"]>>

\* C21: for every callback record (value, callback_type) the CallbackServer
\* receives, sent by DccServer.send_callback or by
\* CallbackClient.send_callback, its reply has success=true and callbackSended
\* is emitted once, with exactly that value and that callback_type.
C21_CallbackDelivered ==
    \A i \in 1..Len(cb_log) :
        LET e == cb_log[i] IN
        IsCallbackRecord(e.data) =>
            /\ e.reply["success"]
            /\ e.emitted = << RecordOf(e.data) >>

\* The part of C21 for the records DccServer.send_callback builds.
ServerRecordsDelivered ==
    \A i \in 1..Len(cb_log) :
        LET e == cb_log[i] IN
        (IsCallbackRecord(e.data) /\ "result" \in DOMAIN e.data) =>
            /\ e.reply["success"]
            /\ e.reply["result"] = RecordOf(e.data)[1]
            /\ e.emitted = << RecordOf(e.data) >>

\* A DccServer at work: the host application reports events with
\* DccServer.send_callback while clients write requests to the main channel.
HostNext ==
    \/ \E t \in Threads : HostSendCallback(t)
    \/ \E t \in Threads : ThreadSend(t)
    \/ \E t \in Threads : ThreadSendRest(t)
    \/ \E t \in Threads : ThreadRecv(t)
    \/ \E t \in Threads : ThreadTimeout(t)
    \/ \E t \in Threads : ThreadStore(t)
    \/ \E t \in Threads : ThreadDrain(t)
    \/ PeerRead
    \/ MainRequest
    \/ MainServe

SpecHost == CallbackInit /\ [][HostNext]_vars

\* A started thread gets to run its sendall.
SomeSendall == \E t \in Threads : ThreadSend(t) \/ ThreadSendRest(t)

\* The DccServer with the scheduling the host gives it: the event loop of the
\* host thread runs _read for a request that waits whenever the thread is
\* free, and started threads run. Nothing is assumed of the callback peer: it
\* may be slow, or never read or answer.
FairHost ==
    /\ SpecHost
    /\ WF_vars(MainServe)
    /\ WF_vars(SomeSendall)

\* Work the host has taken on and not done: a main-channel request that
\* waits for its answer, a started send that has not written its frame.
Pending ==
    \/ m_answered < m_sent
    \/ \E t \in Threads : t_pc[t] \in {"send", "rest"}

\* C22: DccServer.send_callback returns to the host thread without waiting
\* for the callback peer. Whatever the peer does, also when it is slow or
\* never answers and sends wait in recv, every request written to the main
\* channel is read, dispatched and answered, and every send_callback call made
\* later starts its send and writes its frame.
C22_HostNotStalled == Pending ~> ~Pending

\* Two send_callback threads wait in recv for a peer that has written
\* nothing, and every main-channel request was answered, one of them while a
\* thread was waiting.
C22_Witness ==
    /\ cb_stream = <<>>
    /\ \A t \in Threads : t_pc[t] = "loop" /\ "result" \in DOMAIN t_req[t]
    /\ m_overlap
    /\ m_sent = MaxRequests
    /\ m_answered = m_sent

\* The callers whose sendall has written at least the header of their frame.
Writers == {t \in Threads : t_pc[t] \notin {"none", "send"} /\ t_out[t] # "None"}

\* Every read of the peer found a whole request, and it dispatched no more
\* requests than were written.
WholeFrames == cb_rejects = 0 /\ Len(cb_log) <= Cardinality(Writers)

\* The positions in cb_stream of the k-th reply frame.
FrameBytes(k) == ((IF k = 1 THEN 0 ELSE cb_ends[k - 1]) + 1)..cb_ends[k]

\* The bytes the recv of each caller took lie in one reply frame, and a recv
\* that returned a reply took the whole of that frame.
OneFrameEach ==
    \A t \in Threads :
        \/ t_got[t] = {} /\ t_out[t] # "reply"
        \/ \E k \in 1..Len(cb_ends) :
            /\ t_got[t] \subseteq FrameBytes(k)
            /\ t_out[t] = "reply" => t_got[t] = FrameBytes(k)

\* _discard_count holds what the completed += 1 and -= 1 statements add up to.
NoLostUpdate == cb_discard = cb_incs - cb_decs

\* C29: when several threads started by DccServer.send_callback run
\* concurrently on the one shared CallbackClient, under every interleaving
\* each callback record reaches the peer at most once and as a whole frame,
\* the recv of each thread takes only the bytes of one complete reply frame,
\* and no update of discard_count is lost.
C29_SharedClientSafe == WholeFrames /\ OneFrameEach /\ NoLostUpdate

====
